---- MODULE Spec2Model ----
(***************************************************************************)
(* Tendermint consensus core of autonity (consensus/tendermint/core).      *)
(*                                                                         *)
(* The core of one validator is a record; every function of the Go code    *)
(* is an operator from that record (and the function's arguments) to the   *)
(* record after the call, so that a handler that calls other functions is  *)
(* the composition of their operators.  The actions at the end of the      *)
(* module are the events of the driver loop (handleConsensusEvents) and    *)
(* of the environment (peers, timers, the chain).                          *)
(***************************************************************************)
EXTENDS Integers, Sequences, FiniteSets, TLC

VARIABLES
    nodes,      \* address -> the core (and its backend) of that validator
    net,        \* payloads the peers that are not modelled as cores send
    delivered,  \* peer payloads handed to the driver loops so far: their number
                \* (Spec), or for each core the set of them (SpecNet, SpecLive)
    qValSet,    \* validator set a function is applied to (SpecQuorum, SpecProposer)
    qCount,     \* the count asked about (SpecQuorum), the round (SpecProposer)
    qResult     \* the answer of Quorum (SpecQuorum), of CalcProposer (SpecProposer)

vars == <<nodes, net, delivered, qValSet, qCount, qResult>>

----------------------------------------------------------------------------
(* Bounds of the model *)

\* rounds 0..MaxRound of a height are played
MaxRound == 2
\* the chain head stays below MaxHeight
MaxHeight == 2
\* peer payloads delivered in one behaviour
MaxPeerMsgs == 5
\* messages parked in the backlogs of one core
MaxBacklog == 2
\* backlog events waiting in the event channel of one core
MaxBacklogEvents == 2
\* the chain head of the single validator stays below MaxSoloHeight
MaxSoloHeight == 4
\* calls of measureHeightRoundMetrics in one behaviour
MaxMarks == 8
\* Backend.Gossip: the calls of Gossip and of ResetPeerCache, and the sizes
\* of the cache of the peers and of the cache of the messages of a peer
MaxGossips == 3
MaxResets == 1
inmemoryPeers == 2
inmemoryMessages == 1
\* ParseV4WithResolveMaxTry: the largest maxTry
MaxTry == 3
\* largest validator set given to the quorum calculator
MaxValidators == 9
\* goroutines of the host that call Start and Stop, and the calls they make
\* in one behaviour
MaxCallers == 2
MaxCalls == 3
\* largest validator set and largest round given to CalcProposer
MaxProposerSet == 7
MaxProposerRound == 9

----------------------------------------------------------------------------
(* Values *)

\* validator.Set as the host returns it for every height: an ordered list
ValidatorList == <<"A", "B", "C", "D">>
\* common.Address{}
NoAddr == "none"
BlockIds == {"X", "Y"}
\* a nil *types.Block
NoBlock == [number |-> -1, id |-> "nil"]
Block(h, id) == [number |-> h, id |-> id]
\* common.Hash{}: the hash of "no block"; a block's hash identifies it
NilHash == NoBlock
HashOf(b) == b
\* currentRoundState.Proposal() == nil
NoProposal == [block |-> NoBlock, validRound |-> -2]

msgProposal == "msgProposal"
msgPrevote == "msgPrevote"
msgPrecommit == "msgPrecommit"

propose == "propose"
prevote == "prevote"
precommit == "precommit"
precommitDone == "precommitDone"
StepOrd(s) == CASE s = propose -> 0 [] s = prevote -> 1 [] s = precommit -> 2 [] OTHER -> 3

errNil == "nil"
errNotFromProposer == "errNotFromProposer"
errFutureHeightMessage == "errFutureHeightMessage"
errOldHeightMessage == "errOldHeightMessage"
errOldRoundMessage == "errOldRoundMessage"
errFutureRoundMessage == "errFutureRoundMessage"
errFutureStepMessage == "errFutureStepMessage"
errInvalidMessage == "errInvalidMessage"
\* the errors of Message.FromPayload
errFailedDecode == "errFailedDecode"
errUnauthorizedAddress == "errUnauthorizedAddress"

\* a decoded, signature-checked consensus message
Message(code, h, r, sender, value, vr) ==
    [code |-> code, height |-> h, round |-> r, sender |-> sender, value |-> value, validRound |-> vr]

\* A payload: the bytes of a message (or bytes that decode to no message) and
\* a signature, which stands for the address that made it
Payload(msg, signer) == [msg |-> msg, signer |-> signer, decodes |-> TRUE]
\* finalizeMessage: the message signed by its sender
Encode(msg) == Payload(msg, msg.sender)
Undecodable(payload) == [payload EXCEPT !.decodes = FALSE]

RangeOf(seq) == {seq[i] : i \in 1..Len(seq)}
IndexOf(seq, x) == IF x \in RangeOf(seq) THEN (CHOOSE i \in 1..Len(seq) : seq[i] = x) - 1 ELSE -1
Max(S) == CHOOSE x \in S : \A y \in S : y <= x

\* bags as functions element -> positive count
EmptyBag == [x \in {} |-> 0]
BagAdd(b, x) == IF x \in DOMAIN b THEN [b EXCEPT ![x] = @ + 1] ELSE b @@ (x :> 1)
BagRemove(b, x) == IF b[x] > 1 THEN [b EXCEPT ![x] = @ - 1] ELSE [y \in DOMAIN b \ {x} |-> b[y]]
RECURSIVE BagSum(_, _)
BagSum(b, S) == IF S = {} THEN 0 ELSE LET x == CHOOSE y \in S : TRUE IN b[x] + BagSum(b, S \ {x})
BagSize(b) == BagSum(b, DOMAIN b)
BagUnion(a, b) == [x \in DOMAIN a \cup DOMAIN b |->
                    (IF x \in DOMAIN a THEN a[x] ELSE 0) + (IF x \in DOMAIN b THEN b[x] ELSE 0)]

----------------------------------------------------------------------------
(* validatorSet: the ordered validators of the height and its proposer *)

NewValidatorSet == [validators |-> <<>>, proposer |-> NoAddr]
Size(valSet) == Len(valSet.validators)
\* Byzantine budget f = floor((n-1)/3)
F(valSet) == (Size(valSet) - 1) \div 3
\* the proposer after lastProposer, whatever the round
CalcProposerSticky(valSet, lastProposer, round) ==
    IF Size(valSet) = 0 THEN [valSet EXCEPT !.proposer = NoAddr]
    ELSE [valSet EXCEPT !.proposer =
            valSet.validators[((IndexOf(valSet.validators, lastProposer) + 1) % Size(valSet)) + 1]]

\* round robin: validators[(indexOf(lastProposer) + 1 + round) mod n]
CalcProposer(valSet, lastProposer, round) ==
    IF Size(valSet) = 0 THEN [valSet EXCEPT !.proposer = NoAddr]
    ELSE [valSet EXCEPT !.proposer =
            valSet.validators[((IndexOf(valSet.validators, lastProposer) + 1 + round) % Size(valSet)) + 1]]
IsProposer(valSet, addr) == valSet.proposer = addr

\* math.Ceil(float64(2)/float64(3)*float64(n)): the double nearest to 2/3 is
\* (2^54 - 1) / (3 * 2^53); its product with n, rounded to a double, is the
\* integer 2n/3 when 3 divides n and keeps its fractional part otherwise, so
\* that the ceiling is the least integer >= 2n/3
CeilTwoThirds(n) == (2 * n + 2) \div 3

----------------------------------------------------------------------------
(* messageSet: the votes of one step of one round *)

newMessageSet == [votes |-> {}, nilvotes |-> {}]
Senders(ms) == {e.msg.sender : e \in ms.votes} \cup {m.sender : m \in ms.nilvotes}
\* a second message of a sender is dropped
AddVote(ms, hash, msg) ==
    IF msg.sender \in Senders(ms) THEN ms
    ELSE [ms EXCEPT !.votes = @ \cup {[hash |-> hash, msg |-> msg]}]
AddNilVote(ms, msg) ==
    IF msg.sender \in Senders(ms) THEN ms
    ELSE [ms EXCEPT !.nilvotes = @ \cup {msg}]
Values(ms, hash) == {e.msg : e \in {x \in ms.votes : x.hash = hash}}
VotesSize(ms, hash) == Cardinality({e \in ms.votes : e.hash = hash})
NilVotesSize(ms) == Cardinality(ms.nilvotes)
TotalSize(ms) == Cardinality(ms.votes) + Cardinality(ms.nilvotes)
----------------------------------------------------------------------------
(* roundState *)

\* new(roundState)
ZeroRoundState ==
    [round |-> 0, height |-> 0, step |-> propose, proposal |-> NoProposal,
     Prevotes |-> newMessageSet, Precommits |-> newMessageSet]
NewRoundState(r, h) == [ZeroRoundState EXCEPT !.round = r, !.height = h]
\* Update works on the object it is called on: a new view, no proposal, empty vote sets
Update(rs, r, h) ==
    [rs EXCEPT !.round = r, !.height = h, !.proposal = NoProposal,
               !.Prevotes = newMessageSet, !.Precommits = newMessageSet]
GetCurrentProposalHash(rs) == IF rs.proposal = NoProposal THEN NilHash ELSE HashOf(rs.proposal.block)

----------------------------------------------------------------------------
(* timeout: one cancellable one-shot timer *)

newTimeout == [started |-> FALSE, fired |-> FALSE, round |-> -1, height |-> -1]
scheduleTimeout(r, h) == [started |-> TRUE, fired |-> FALSE, round |-> r, height |-> h]
stopTimer(t) == [t EXCEPT !.started = FALSE]
reset(t) == newTimeout
timerStarted(t) == t.started
TimeoutEvent(step, r, h) == [step |-> step, roundWhenCalled |-> r, heightWhenCalled |-> h]

----------------------------------------------------------------------------
(* The core.  The round state objects live in the heap rs: the object made *)
(* by New has the address CurPtr and currentRoundState always points to it *)

CurPtr == -1
NoEvents == [msgs |-> {}, backlog |-> EmptyBag, timeouts |-> {}, commits |-> 0]

New(addr) ==
    [address |-> addr,
     valSet |-> NewValidatorSet,
     backlogs |-> EmptyBag,
     rs |-> (CurPtr :> ZeroRoundState),
     currentRoundState |-> CurPtr,
     pendingUnminedBlocks |-> {},
     isWaitingForUnminedBlock |-> FALSE,
     sentProposal |-> FALSE,
     sentPrevote |-> FALSE,
     sentPrecommit |-> FALSE,
     setValidRoundAndValue |-> FALSE,
     lockedRound |-> -1,
     validRound |-> -1,
     lockedValue |-> NoBlock,
     validValue |-> NoBlock,
     currentHeightOldRoundsStates |-> [k \in {} |-> CurPtr],
     proposeTimeout |-> newTimeout,
     prevoteTimeout |-> newTimeout,
     precommitTimeout |-> newTimeout,
     futureRoundsChange |-> [k \in {} |-> 0],
     \* the driver: not yet started, running its loop, or suspended in startRound
     pc |-> "new",
     \* the backend: chain head (number, proposer), event channels, what was
     \* broadcast and what was handed to Commit; commitFails: the executor
     \* behind Commit refuses every block
     chain |-> [number |-> 0, proposer |-> NoAddr],
     \* solo: the chain has one validator, this node, at every height
     solo |-> FALSE,
     commitFails |-> FALSE,
     \* ctx.Done() of the context that Start derived for the driver is closed
     ctxDone |-> FALSE,
     events |-> NoEvents,
     out |-> {},
     \* the messages that were broadcast again after they had been broadcast
     outAgain |-> {},
     committed |-> {}]

Cur(c) == c.rs[c.currentRoundState]
SetCur(c, rs) == [c EXCEPT !.rs[c.currentRoundState] = rs]
Height(c) == Cur(c).height
Round(c) == Cur(c).round
Step(c) == Cur(c).step
MapGet(m, k) == IF k \in DOMAIN m THEN m[k] ELSE 0

\* the more common predicate, count > 2n/3
QuorumStrict(c, i) == 3 * i > 2 * Size(c.valSet)
\* float64(i) >= math.Ceil(float64(2)/float64(3)*float64(c.valSet.Size()))
Quorum(c, i) == i >= CeilTwoThirds(Size(c.valSet))

isProposer(c) == IsProposer(c.valSet, c.address)

\* Broadcast that gossips the payload and does not post it to the node itself
broadcastToPeersOnly(c, msg) ==
    [c EXCEPT !.out = @ \cup {msg}, !.outAgain = @ \cup ({msg} \cap c.out)]

\* finalizeMessage signs; backend.Broadcast gossips the payload to the other
\* validators and posts it to the node's own event channel
broadcast(c, msg) ==
    [c EXCEPT !.out = @ \cup {msg},
              !.outAgain = @ \cup ({msg} \cap c.out),
              !.events.msgs = @ \cup {msg}]

----------------------------------------------------------------------------
(* Classification of a message against the current view *)

StepOfCode(code) == CASE code = msgProposal -> propose [] code = msgPrevote -> prevote [] OTHER -> precommit

\* errFutureStepMessage: a prevote or precommit of the current round while the
\* step is propose
checkMessage(c, round, height, step) ==
    IF height > Height(c) THEN errFutureHeightMessage
    ELSE IF height < Height(c) THEN errOldHeightMessage
    ELSE IF round > Round(c) THEN errFutureRoundMessage
    ELSE IF round < Round(c) THEN errOldRoundMessage
    ELSE IF Step(c) = propose /\ StepOrd(step) > StepOrd(propose) THEN errFutureStepMessage
    ELSE errNil

IsFutureErr(err) == err \in {errFutureHeightMessage, errFutureRoundMessage, errFutureStepMessage}

----------------------------------------------------------------------------
(* Backlog *)

\* the message is pushed on the priority queue of its sender
storeBacklog(c, msg) ==
    [c EXCEPT !.backlogs = BagAdd(@, msg)]

\* Every queue is popped in the order (height, round, step) until its head is a
\* future message: current messages are posted as backlogEvent to the event
\* channel, past ones are discarded, future ones stay
processBacklog(c) ==
    LET class(m) == checkMessage(c, m.round, m.height, StepOfCode(m.code))
        stay == {m \in DOMAIN c.backlogs : IsFutureErr(class(m))}
        fed == {m \in DOMAIN c.backlogs : class(m) = errNil}
    IN [c EXCEPT !.backlogs = [m \in stay |-> c.backlogs[m]],
                 !.events.backlog = BagUnion(@, [m \in fed |-> c.backlogs[m]])]

\* setStep without processBacklog
\* setStep that leaves the step as it is
setStepBacklogOnly(c, step) == processBacklog(c)

setStepOnly(c, step) == SetCur(c, [Cur(c) EXCEPT !.step = step])

setStep(c, step) ==
    processBacklog(SetCur(c, [Cur(c) EXCEPT !.step = step]))

----------------------------------------------------------------------------
(* setCore and startRound *)

\* the validators saved for each height: block 1 replaces D by E
ValidatorsOfHeight(h) == IF h <= 1 THEN ValidatorList ELSE <<"A", "B", "C", "E">>
\* backend.Validators(h)
BackendValidators(c, h) ==
    [NewValidatorSet EXCEPT !.validators = IF c.solo THEN <<c.address>> ELSE ValidatorsOfHeight(h)]
\* backend.LastCommittedProposal()
LastCommittedProposal(c) == c.chain

DropKeys(m, K) == [k \in DOMAIN m \ K |-> m[k]]

setCoreKeepsTimers(c, r, h, lastProposer) ==
    LET c1 == IF r = 0
              THEN [c EXCEPT !.lockedRound = -1, !.lockedValue = NoBlock,
                             !.validRound = -1, !.validValue = NoBlock,
                             !.valSet = BackendValidators(c, h),
                             !.currentHeightOldRoundsStates = [k \in {} |-> CurPtr],
                             !.rs = (CurPtr :> c.rs[CurPtr]),
                             !.futureRoundsChange = [k \in {} |-> 0]]
              ELSE c
        c3 == [c1 EXCEPT !.futureRoundsChange = DropKeys(@, 0..r)]
        c4 == IF r > 0
              THEN [c3 EXCEPT !.currentHeightOldRoundsStates =
                        [k \in DOMAIN @ \cup {r - 1} |-> IF k = r - 1 THEN c3.currentRoundState ELSE @[k]]]
              ELSE c3
        c5 == SetCur(c4, Update(Cur(c4), r, h))
    IN [c5 EXCEPT !.valSet = CalcProposer(@, lastProposer, r),
                  !.sentProposal = FALSE, !.sentPrevote = FALSE,
                  !.sentPrecommit = FALSE, !.setValidRoundAndValue = FALSE]

setCoreResetsLock(c, r, h, lastProposer) ==
    LET c1 == [c EXCEPT !.lockedRound = -1, !.lockedValue = NoBlock,
                        !.validRound = -1, !.validValue = NoBlock]
    IN [setCoreKeepsTimers(c1, r, h, lastProposer) EXCEPT
            !.proposeTimeout = reset(@), !.prevoteTimeout = reset(@), !.precommitTimeout = reset(@)]

\* setCore that keeps the lock and the valid value in round 0
setCoreKeepsLock(c, r, h, lastProposer) ==
    [setCoreKeepsTimers(c, r, h, lastProposer) EXCEPT
        !.proposeTimeout = reset(@), !.prevoteTimeout = reset(@), !.precommitTimeout = reset(@),
        !.lockedRound = c.lockedRound, !.lockedValue = c.lockedValue,
        !.validRound = c.validRound, !.validValue = c.validValue]

\* setCore that resets the locked round and the valid round of round 0 but
\* not the values
setCoreResetsRounds(c, r, h, lastProposer) ==
    [setCoreKeepsTimers(c, r, h, lastProposer) EXCEPT
        !.proposeTimeout = reset(@), !.prevoteTimeout = reset(@), !.precommitTimeout = reset(@),
        !.lockedValue = c.lockedValue, !.validValue = c.validValue]

\* setCore that does not delete the counters of the rounds <= r
setCoreKeepsCounters(c, r, h, lastProposer) ==
    LET c1 == IF r = 0
              THEN [c EXCEPT !.lockedRound = -1, !.lockedValue = NoBlock,
                             !.validRound = -1, !.validValue = NoBlock,
                             !.valSet = BackendValidators(c, h),
                             !.currentHeightOldRoundsStates = [k \in {} |-> CurPtr],
                             !.rs = (CurPtr :> c.rs[CurPtr]),
                             !.futureRoundsChange = [k \in {} |-> 0]]
              ELSE c
        c2 == [c1 EXCEPT !.proposeTimeout = reset(@), !.prevoteTimeout = reset(@),
                         !.precommitTimeout = reset(@)]
        c3 == c2
        c4 == IF r > 0
              THEN [c3 EXCEPT !.currentHeightOldRoundsStates =
                        [k \in DOMAIN @ \cup {r - 1} |-> IF k = r - 1 THEN c3.currentRoundState ELSE @[k]]]
              ELSE c3
        c5 == SetCur(c4, Update(Cur(c4), r, h))
    IN [c5 EXCEPT !.valSet = CalcProposer(@, lastProposer, r),
                  !.sentProposal = FALSE, !.sentPrevote = FALSE,
                  !.sentPrecommit = FALSE, !.setValidRoundAndValue = FALSE]

\* setCore that asks the backend for the validators in every round
setCoreNewValidators(c, r, h, lastProposer) ==
    [setCoreKeepsTimers([c EXCEPT !.valSet = BackendValidators(c, h)], r, h, lastProposer) EXCEPT
        !.proposeTimeout = reset(@), !.prevoteTimeout = reset(@), !.precommitTimeout = reset(@)]

\* r = 0: a new height, the shared round values, the validator set and the
\* round maps are reset.  Every round: the three timeouts are reset, the
\* counters of the rounds <= r are deleted, the pointer currentRoundState is
\* stored under r-1 and the object it points to is updated to (r, h)
setCore(c, r, h, lastProposer) ==
    LET c1 == IF r = 0
              THEN [c EXCEPT !.lockedRound = -1, !.lockedValue = NoBlock,
                             !.validRound = -1, !.validValue = NoBlock,
                             !.valSet = BackendValidators(c, h),
                             !.currentHeightOldRoundsStates = [k \in {} |-> CurPtr],
                             !.rs = (CurPtr :> c.rs[CurPtr]),
                             !.futureRoundsChange = [k \in {} |-> 0]]
              ELSE c
        c2 == [c1 EXCEPT !.proposeTimeout = reset(@), !.prevoteTimeout = reset(@),
                         !.precommitTimeout = reset(@)]
        c3 == [c2 EXCEPT !.futureRoundsChange = DropKeys(@, 0..r)]
        c4 == IF r > 0
              THEN [c3 EXCEPT !.currentHeightOldRoundsStates =
                        [k \in DOMAIN @ \cup {r - 1} |-> IF k = r - 1 THEN c3.currentRoundState ELSE @[k]]]
              ELSE c3
        c5 == SetCur(c4, Update(Cur(c4), r, h))
    IN [c5 EXCEPT !.valSet = CalcProposer(@, lastProposer, r),
                  !.sentProposal = FALSE, !.sentPrevote = FALSE,
                  !.sentPrecommit = FALSE, !.setValidRoundAndValue = FALSE]

\* the candidate block of the height, if the miner has supplied one
getUnminedBlock(c) ==
    LET have == {b \in c.pendingUnminedBlocks : b.number = Height(c)}
    IN IF have = {} THEN NoBlock ELSE CHOOSE b \in have : TRUE

sendProposal(c, p) ==
    broadcast([c EXCEPT !.sentProposal = TRUE],
              Message(msgProposal, Height(c), Round(c), c.address, p, c.validRound))

sendPrevote(c, isNil) ==
    broadcast([c EXCEPT !.sentPrevote = TRUE],
              Message(msgPrevote, Height(c), Round(c), c.address,
                      IF isNil THEN NilHash ELSE GetCurrentProposalHash(Cur(c)), -1))

sendPrecommit(c, isNil) ==
    broadcast([c EXCEPT !.sentPrecommit = TRUE],
              Message(msgPrecommit, Height(c), Round(c), c.address,
                      IF isNil THEN NilHash ELSE GetCurrentProposalHash(Cur(c)), -1))

\* startRound that arms no timeout
startRoundWithoutTimeout(c, round) ==
    LET last == LastCommittedProposal(c)
        height == last.number + 1
        c2 == setStep(setCore(c, round, height, last.proposer), propose)
    IN IF isProposer(c2)
       THEN IF c2.validValue # NoBlock THEN sendProposal(c2, c2.validValue)
            ELSE IF getUnminedBlock(c2) # NoBlock THEN sendProposal(c2, getUnminedBlock(c2))
            ELSE [c2 EXCEPT !.isWaitingForUnminedBlock = TRUE, !.pc = "waitBlock"]
       ELSE c2

\* startRound of a proposer that never proposes validValue
startRoundFreshBlock(c, round) ==
    LET last == LastCommittedProposal(c)
        height == last.number + 1
        c2 == setStep(setCore(c, round, height, last.proposer), propose)
    IN IF isProposer(c2)
       THEN IF getUnminedBlock(c2) # NoBlock THEN sendProposal(c2, getUnminedBlock(c2))
            ELSE [c2 EXCEPT !.isWaitingForUnminedBlock = TRUE, !.pc = "waitBlock"]
       ELSE [c2 EXCEPT !.proposeTimeout = scheduleTimeout(round, height)]

\* startRound that starts round 0 whatever round it is given
startRoundZero(c, round) ==
    LET last == LastCommittedProposal(c)
        height == last.number + 1
        c2 == setStep(setCore(c, 0, height, last.proposer), propose)
    IN IF isProposer(c2)
       THEN IF c2.validValue # NoBlock THEN sendProposal(c2, c2.validValue)
            ELSE IF getUnminedBlock(c2) # NoBlock THEN sendProposal(c2, getUnminedBlock(c2))
            ELSE [c2 EXCEPT !.isWaitingForUnminedBlock = TRUE, !.pc = "waitBlock"]
       ELSE [c2 EXCEPT !.proposeTimeout = scheduleTimeout(0, height)]

\* The proposer proposes validValue or a candidate block; without a candidate
\* the driver is suspended on pendingUnminedBlockCh (pc = "waitBlock").  Any
\* other node arms the propose timeout for the new view.  The meters that
\* measureHeightRoundMetrics marks first are package variables, which no
\* code of the core reads: they are kept out of the core (SpecMetrics)
startRound(c, round) ==
    LET last == LastCommittedProposal(c)
        height == last.number + 1
        c1 == setCore(c, round, height, last.proposer)
        c2 == setStep(c1, propose)
    IN IF isProposer(c2)
       THEN IF c2.validValue # NoBlock THEN sendProposal(c2, c2.validValue)
            ELSE IF getUnminedBlock(c2) # NoBlock THEN sendProposal(c2, getUnminedBlock(c2))
            ELSE [c2 EXCEPT !.isWaitingForUnminedBlock = TRUE, !.pc = "waitBlock"]
       ELSE [c2 EXCEPT !.proposeTimeout = scheduleTimeout(round, height)]

----------------------------------------------------------------------------
(* commit *)

\* the committed seal a precommit carries: its sender's signature over
\* block_hash || msgPrecommit
CommittedSeal(v) == [signer |-> v.sender, hash |-> v.value]

\* backend.Commit: types.WriteCommittedSeals refuses an empty list of seals;
\* otherwise the sealed block is handed to the miner or to the fetcher
CommitError(c, committedSeals) == committedSeals = {} \/ c.commitFails
BackendCommit(c, block, committedSeals, votes) ==
    IF CommitError(c, committedSeals) THEN c
    ELSE [c EXCEPT !.committed = @ \cup
            {[block |-> block, seals |-> committedSeals, votes |-> votes,
              height |-> Height(c), round |-> Round(c)]}]

\* commit that starts the next round when backend.Commit returns an error
commitSkipsRound(c) ==
    LET c1 == setStep(c, precommitDone)
        proposal == Cur(c1).proposal
    IN IF proposal # NoProposal
       THEN LET vs == Values(Cur(c1).Precommits, HashOf(proposal.block))
                seals == {CommittedSeal(v) : v \in vs}
            IN IF CommitError(c1, seals) THEN startRound(c1, Round(c1) + 1)
               ELSE BackendCommit(c1, proposal.block, seals, vs)
       ELSE c1

\* the step is precommitDone; the proposal of the round and the committed
\* seals of its precommits are handed to backend.Commit, whose error is logged
commit(c) ==
    LET c1 == setStep(c, precommitDone)
        proposal == Cur(c1).proposal
    IN IF proposal # NoProposal
       THEN LET vs == Values(Cur(c1).Precommits, HashOf(proposal.block))
            IN BackendCommit(c1, proposal.block, {CommittedSeal(v) : v \in vs}, vs)
       ELSE c1

----------------------------------------------------------------------------
(* acceptVote *)

acceptVoteUnchecked(roundState, step, hash, msg) ==
    LET entry == [hash |-> hash, msg |-> msg]
    IN IF step = prevote
       THEN IF hash = NilHash THEN [roundState EXCEPT !.Prevotes.nilvotes = @ \cup {msg}]
            ELSE [roundState EXCEPT !.Prevotes.votes = @ \cup {entry}]
       ELSE IF step = precommit
       THEN IF hash = NilHash THEN [roundState EXCEPT !.Precommits.nilvotes = @ \cup {msg}]
            ELSE [roundState EXCEPT !.Precommits.votes = @ \cup {entry}]
       ELSE roundState

acceptVote(roundState, step, hash, msg) ==
    LET emptyHash == hash = NilHash
    IN IF step = prevote
       THEN IF emptyHash THEN [roundState EXCEPT !.Prevotes = AddNilVote(@, msg)]
            ELSE [roundState EXCEPT !.Prevotes = AddVote(@, hash, msg)]
       ELSE IF step = precommit
       THEN IF emptyHash THEN [roundState EXCEPT !.Precommits = AddNilVote(@, msg)]
            ELSE [roundState EXCEPT !.Precommits = AddVote(@, hash, msg)]
       ELSE roundState

\* A vote of a past round of the current height is applied to the state kept
\* for that round; a round never observed before gets a state of its own
acceptOldRoundVote(c, step, msg) ==
    LET c1 == IF msg.round \in DOMAIN c.currentHeightOldRoundsStates THEN c
              ELSE [c EXCEPT !.rs = @ @@ (msg.round :> NewRoundState(msg.round, msg.height)),
                             !.currentHeightOldRoundsStates = @ @@ (msg.round :> msg.round)]
        ptr == c1.currentHeightOldRoundsStates[msg.round]
    IN [c1 EXCEPT !.rs[ptr] = acceptVote(@, step, msg.value, msg)]

----------------------------------------------------------------------------
(* The handlers of the three messages.  Each returns the core and an error *)

Ret(c, err) == [c |-> c, err |-> err]

handleProposal(c, msg) ==
    LET err == checkMessage(c, msg.round, msg.height, propose)
        cur == Cur(c)
        h == HashOf(msg.value)
        vr == msg.validRound
    IN IF err # errNil THEN Ret(c, err)
       ELSE IF ~IsProposer(c.valSet, msg.sender) THEN Ret(c, errNotFromProposer)
       ELSE IF vr >= msg.round THEN Ret(c, errInvalidMessage)
       ELSE IF cur.proposal # NoProposal THEN Ret(c, errNil)
       ELSE LET c1 == SetCur(c, [cur EXCEPT !.proposal = [block |-> msg.value, validRound |-> vr]])
                old == c1.currentHeightOldRoundsStates
            IN IF vr = -1 /\ cur.step = propose
               THEN LET voteForProposal == c1.lockedRound = -1 \/ h = HashOf(c1.lockedValue)
                        c2 == [c1 EXCEPT !.proposeTimeout = stopTimer(@)]
                    IN Ret(setStep(sendPrevote(c2, ~voteForProposal), prevote), errNil)
               ELSE IF /\ vr >= 0
                       /\ vr \in DOMAIN old
                       /\ vr < cur.round
                       /\ Quorum(c1, VotesSize(c1.rs[old[vr]].Prevotes, h))
                       /\ cur.step = propose
               THEN LET voteForProposal == c1.lockedRound <= vr \/ h = HashOf(c1.lockedValue)
                        c2 == [c1 EXCEPT !.proposeTimeout = stopTimer(@)]
                    IN Ret(setStep(sendPrevote(c2, ~voteForProposal), prevote), errNil)
               ELSE Ret(c1, errNil)

handlePrevote(c, msg) ==
    LET err == checkMessage(c, msg.round, msg.height, prevote)
    IN IF err = errOldRoundMessage THEN Ret(acceptOldRoundVote(c, prevote, msg), err)
       ELSE IF err # errNil THEN Ret(c, err)
       ELSE LET c1 == SetCur(c, acceptVote(Cur(c), prevote, msg.value, msg))
                cur == Cur(c1)
                curProposalHash == GetCurrentProposalHash(cur)
            IN IF StepOrd(cur.step) < StepOrd(prevote) THEN Ret(c1, errNil)
               ELSE IF /\ curProposalHash # NilHash
                       /\ Quorum(c1, VotesSize(cur.Prevotes, curProposalHash))
                       /\ ~c1.setValidRoundAndValue
               THEN LET c2 == IF cur.step = prevote
                              THEN setStep(sendPrecommit(
                                       [c1 EXCEPT !.lockedValue = cur.proposal.block,
                                                  !.lockedRound = cur.round], FALSE), precommit)
                              ELSE c1
                    IN Ret([c2 EXCEPT !.validValue = cur.proposal.block,
                                      !.validRound = cur.round,
                                      !.setValidRoundAndValue = TRUE], errNil)
               ELSE IF cur.step = prevote /\ Quorum(c1, NilVotesSize(cur.Prevotes))
               THEN Ret(setStep(sendPrecommit([c1 EXCEPT !.prevoteTimeout = stopTimer(@)], TRUE),
                                precommit), errNil)
               ELSE IF /\ cur.step = prevote
                       /\ ~timerStarted(c1.prevoteTimeout)
                       /\ Quorum(c1, TotalSize(cur.Prevotes))
               THEN Ret([c1 EXCEPT !.prevoteTimeout = scheduleTimeout(cur.round, cur.height)], errNil)
               ELSE Ret(c1, errNil)

handlePrecommit(c, msg) ==
    LET err == checkMessage(c, msg.round, msg.height, precommit)
    IN IF err = errOldRoundMessage THEN Ret(acceptOldRoundVote(c, precommit, msg), err)
       ELSE IF err # errNil THEN Ret(c, err)
       ELSE LET c1 == SetCur(c, acceptVote(Cur(c), precommit, msg.value, msg))
                cur == Cur(c1)
                curProposalHash == GetCurrentProposalHash(cur)
            IN IF /\ curProposalHash # NilHash
                  /\ Quorum(c1, VotesSize(cur.Precommits, curProposalHash))
               THEN Ret(commit([c1 EXCEPT !.precommitTimeout = stopTimer(@)]), errNil)
               ELSE IF ~timerStarted(c1.precommitTimeout) /\ Quorum(c1, TotalSize(cur.Precommits))
               THEN Ret([c1 EXCEPT !.precommitTimeout = scheduleTimeout(cur.round, cur.height)], errNil)
               ELSE Ret(c1, errNil)

----------------------------------------------------------------------------
(* handleCheckedMsg *)

\* testBacklog without its last branch
testBacklogDropsFutureStep(res, msg) ==
    LET err == res.err
    IN IF err = errFutureHeightMessage THEN Ret(storeBacklog(res.c, msg), err)
       ELSE IF err = errFutureRoundMessage
       THEN LET c1 == storeBacklog(res.c, msg)
                msgRound == msg.round
                c2 == [c1 EXCEPT
                        !.futureRoundsChange =
                            [k \in DOMAIN @ \cup {msgRound} |->
                                IF k = msgRound THEN MapGet(@, msgRound) + 1 ELSE @[k]]]
            IN IF c2.futureRoundsChange[msgRound] > F(c2.valSet)
               THEN Ret(startRound(c2, msgRound), err)
               ELSE Ret(c2, err)
       ELSE res

\* the closure testBacklog of handleCheckedMsg: future messages are stored; a
\* future round message also raises the counter of its round, and the round is
\* started once the counter exceeds F
testBacklog(res, msg) ==
    LET err == res.err
    IN IF err = errFutureHeightMessage THEN Ret(storeBacklog(res.c, msg), err)
       ELSE IF err = errFutureRoundMessage
       THEN LET c1 == storeBacklog(res.c, msg)
                msgRound == msg.round
                c2 == [c1 EXCEPT
                        !.futureRoundsChange =
                            [k \in DOMAIN @ \cup {msgRound} |->
                                IF k = msgRound THEN MapGet(@, msgRound) + 1 ELSE @[k]]]
                totalFutureRoundMessages == c2.futureRoundsChange[msgRound]
            IN IF totalFutureRoundMessages > F(c2.valSet)
               THEN Ret(startRound(c2, msgRound), err)
               ELSE Ret(c2, err)
       ELSE IF err = errFutureStepMessage THEN Ret(storeBacklog(res.c, msg), err)
       ELSE res

handleCheckedMsg(c, msg) ==
    IF msg.code = msgProposal THEN testBacklog(handleProposal(c, msg), msg)
    ELSE IF msg.code = msgPrevote THEN testBacklog(handlePrevote(c, msg), msg)
    ELSE IF msg.code = msgPrecommit THEN testBacklog(handlePrecommit(c, msg), msg)
    ELSE Ret(c, errInvalidMessage)

\* crypto.CheckValidatorSignature: the address recovered from the signature
\* has to be a validator of the set
CheckValidatorSignature(valSet, payload) ==
    IF payload.signer \in RangeOf(valSet.validators) THEN errNil ELSE errUnauthorizedAddress

\* Message.FromPayload: the bytes are decoded, the signature is checked
\* against the validator set and the signer has to be the sender the message
\* names
FromPayload(payload, valSet) ==
    IF ~payload.decodes THEN errFailedDecode
    ELSE IF CheckValidatorSignature(valSet, payload) # errNil THEN errUnauthorizedAddress
    ELSE IF payload.signer # payload.msg.sender THEN errUnauthorizedAddress
    ELSE errNil

\* handleMsg without the test of the error of FromPayload
handleMsgUnverified(c, payload) == handleCheckedMsg(c, payload.msg)

\* the payload is decoded and verified against the validator set of the core
handleMsg(c, payload) ==
    LET err == FromPayload(payload, c.valSet)
    IN IF err # errNil THEN Ret(c, err)
       ELSE handleCheckedMsg(c, payload.msg)

----------------------------------------------------------------------------
(* Timeouts and the commit notification *)

SameView(c, ev) == ev.heightWhenCalled = Height(c) /\ ev.roundWhenCalled = Round(c)

handleTimeoutPropose(c, ev) ==
    IF SameView(c, ev) /\ Step(c) = propose
    THEN setStep(sendPrevote(c, TRUE), prevote)
    ELSE c

handleTimeoutPrevote(c, ev) ==
    IF SameView(c, ev) /\ Step(c) = prevote
    THEN setStep(sendPrecommit(c, TRUE), precommit)
    ELSE c

handleTimeoutPrecommit(c, ev) ==
    IF SameView(c, ev) THEN startRound(c, Round(c) + 1) ELSE c

\* the switch on timeoutE.step of handleConsensusEvents
handleTimeoutEvent(c, ev) ==
    IF ev.step = msgProposal THEN handleTimeoutPropose(c, ev)
    ELSE IF ev.step = msgPrevote THEN handleTimeoutPrevote(c, ev)
    ELSE IF ev.step = msgPrecommit THEN handleTimeoutPrecommit(c, ev)
    ELSE c

\* a new chain head: the core moves to the next height unless it is there
handleCommit(c) ==
    IF LastCommittedProposal(c).number + 1 = Height(c) THEN c ELSE startRound(c, 0)

----------------------------------------------------------------------------
(* The events of one core *)


WithinBounds(c) ==
    /\ Round(c) <= MaxRound
    /\ BagSize(c.backlogs) <= MaxBacklog
    /\ BagSize(c.events.backlog) <= MaxBacklogEvents

\* the messages of height 1
Prevote(r, s, id) ==
    Message(msgPrevote, 1, r, s, IF id = "nil" THEN NilHash ELSE HashOf(Block(1, id)), -1)
Precommit(r, s, id) ==
    Message(msgPrecommit, 1, r, s, IF id = "nil" THEN NilHash ELSE HashOf(Block(1, id)), -1)
Proposal(r, s, id, vr) == Message(msgProposal, 1, r, s, Block(1, id), vr)

\* The traffic one run draws from.  Each pool is the part of what the
\* peers of a core may send it that one situation needs: votes of round 0 with an equivocating sender, messages
\* of a future round and of a future height, late precommits of round 0 at
\* round 1, a proposal with a valid round, a second proposal after a lock
PoolRoundZero ==
    {Prevote(0, "B", "X"), Prevote(0, "C", "X"), Prevote(0, "D", "Y"), Prevote(0, "D", "nil"),
     Precommit(0, "B", "X"), Precommit(0, "C", "X"), Precommit(0, "D", "nil")}
PoolFuture ==
    {Prevote(1, "D", "X"), Precommit(1, "D", "X"), Prevote(1, "B", "nil"),
     Message(msgPrevote, 2, 0, "D", HashOf(Block(2, "X")), -1)}
PoolLateVotes ==
    {Prevote(1, "D", "X"), Precommit(1, "D", "X"), Proposal(1, "B", "X", -1),
     Precommit(0, "B", "X"), Precommit(0, "C", "X")}
PoolValidRound ==
    {Prevote(1, "D", "X"), Precommit(1, "D", "X"), Proposal(1, "B", "X", 0),
     Prevote(0, "B", "X"), Prevote(0, "C", "X")}
PoolLocked ==
    {Prevote(0, "B", "X"), Prevote(0, "C", "X"), Precommit(0, "B", "nil"),
     Precommit(0, "C", "nil"), Proposal(1, "B", "Y", -1), Proposal(1, "B", "Y", 0)}
Pools == {PoolRoundZero, PoolFuture, PoolLateVotes, PoolValidRound, PoolLocked}

\* Start: currentRoundState.Update(0, height) before the goroutines are started
Start(n) ==
    LET c == nodes[n]
    IN /\ c.pc = "new"
       /\ nodes' = [nodes EXCEPT ![n] =
                [SetCur(c, Update(Cur(c), 0, LastCommittedProposal(c).number + 1))
                    EXCEPT !.pc = "started"]]
       /\ UNCHANGED <<net, delivered>>

\* handleConsensusEvents begins with startRound(0)
DriverStartRound(n) ==
    LET c == nodes[n]
    IN /\ c.pc = "started"
       /\ nodes' = [nodes EXCEPT ![n] =
                startRound([c EXCEPT !.pc = "loop"], 0)]
       /\ UNCHANGED <<net, delivered>>

\* handleNewUnminedBlockEvent: the miner's candidate for the next block is
\* stored; a driver suspended in startRound receives it and proposes it
NewUnminedBlock(n, id) ==
    LET c == nodes[n]
        b == Block(c.chain.number + 1, id)
        c1 == [c EXCEPT !.pendingUnminedBlocks = {x \in @ : x.number # b.number} \cup {b}]
    IN /\ c.pc # "new"
       /\ \A x \in c.pendingUnminedBlocks : x.number # b.number
       /\ nodes' = [nodes EXCEPT ![n] =
                IF c.pc = "waitBlock"
                THEN sendProposal([c1 EXCEPT
                                      !.isWaitingForUnminedBlock = FALSE, !.pc = "loop"], b)
                ELSE c1]
       /\ UNCHANGED <<net, delivered>>

\* case events.MessageEvent: handleMsg and, if it returned no error,
\* backend.Gossip of the payload.  gossip is what the driver hands to Gossip,
\* which sends it to the peers: it leaves the core
GossipedWhateverTheError(res, payload) ==
    [c |-> res.c, err |-> res.err,
     gossip |-> {[valSet |-> res.c.valSet, payload |-> payload]}]
Gossiped(res, payload) ==
    [c |-> res.c, err |-> res.err,
     gossip |-> IF res.err # errNil THEN {}
                ELSE {[valSet |-> res.c.valSet, payload |-> payload]}]
MessageEvent(c, payload) == Gossiped(handleMsg(c, payload), payload)

\* case backlogEvent: handleCheckedMsg and, if it returned no error,
\* backend.Gossip of the payload of the message
BacklogEvent(c, msg) == Gossiped(handleCheckedMsg(c, msg), Encode(msg))

HandlePayload(c, payload) == MessageEvent(c, payload).c
HandleBacklogMsg(c, msg) == BacklogEvent(c, msg).c

\* What reaches a core besides signed messages of validators: bytes that do
\* not decode, a message signed by a key of no validator (Outsider), in its
\* own name or in the name of a validator, and a message of one validator
\* signed by another
Outsider == "Z"
Malformed(msgs) ==
    UNION {{Undecodable(Encode(m)),
            Payload(m, Outsider),
            Payload([m EXCEPT !.sender = Outsider], Outsider),
            Payload(m, IF m.sender = "C" THEN "D" ELSE "C")} : m \in msgs}
\* the peers send the messages of the run, and the malformed payloads of one
\* prevote of round 0
PeerPayloads ==
    {Encode(m) : m \in net} \cup Malformed({Prevote(0, "B", "X")})

PeerMessage(n, payload) ==
    LET c == nodes[n]
        c1 == HandlePayload(c, payload)
    IN /\ c.pc = "loop"
       /\ delivered < MaxPeerMsgs
       /\ nodes' = [nodes EXCEPT ![n] = c1]
       /\ WithinBounds(nodes'[n])
       /\ delivered' = delivered + 1
       /\ UNCHANGED net

\* the node's own payload, posted by backend.Broadcast
SelfMessage(n, msg) ==
    LET c == nodes[n]
        c1 == HandlePayload([c EXCEPT !.events.msgs = @ \ {msg}], Encode(msg))
    IN /\ c.pc = "loop"
       /\ msg \in c.events.msgs
       /\ nodes' = [nodes EXCEPT ![n] = c1]
       /\ WithinBounds(nodes'[n])
       /\ UNCHANGED <<net, delivered>>

\* case backlogEvent: handleCheckedMsg
HandleBacklogEvent(n, msg) ==
    LET c == nodes[n]
        c1 == HandleBacklogMsg([c EXCEPT !.events.backlog = BagRemove(@, msg)], msg)
    IN /\ c.pc = "loop"
       /\ msg \in DOMAIN c.events.backlog
       /\ nodes' = [nodes EXCEPT ![n] = c1]
       /\ WithinBounds(nodes'[n])
       /\ UNCHANGED <<net, delivered>>

\* a timer that was armed and not stopped expires: onTimeout* posts the event
TimerFires(n, step) ==
    LET c == nodes[n]
        t == CASE step = msgProposal -> c.proposeTimeout
               [] step = msgPrevote -> c.prevoteTimeout
               [] OTHER -> c.precommitTimeout
        ev == TimeoutEvent(step, t.round, t.height)
        c1 == [c EXCEPT !.events.timeouts = @ \cup {ev}]
    IN /\ t.started /\ ~t.fired
       /\ nodes' = [nodes EXCEPT ![n] =
                CASE step = msgProposal -> [c1 EXCEPT !.proposeTimeout.fired = TRUE]
                  [] step = msgPrevote -> [c1 EXCEPT !.prevoteTimeout.fired = TRUE]
                  [] OTHER -> [c1 EXCEPT !.precommitTimeout.fired = TRUE]]
       /\ UNCHANGED <<net, delivered>>

\* case TimeoutEvent
HandleTimeout(n, ev) ==
    LET c == nodes[n]
        c0 == [c EXCEPT !.events.timeouts = @ \ {ev}]
        c1 == handleTimeoutEvent(c0, ev)
    IN /\ c.pc = "loop"
       /\ ev \in c.events.timeouts
       /\ nodes' = [nodes EXCEPT ![n] = c1]
       /\ WithinBounds(nodes'[n])
       /\ UNCHANGED <<net, delivered>>

\* a block is inserted in the chain of the node (its own committed block or a
\* block fetched from a peer): the backend posts a CommitEvent
ChainInsert(n, proposer) ==
    LET c == nodes[n]
    IN /\ c.pc # "new"
       /\ c.chain.number + 1 < MaxHeight
       /\ nodes' = [nodes EXCEPT ![n] =
                [c EXCEPT !.chain = [number |-> c.chain.number + 1, proposer |-> proposer],
                          !.events.commits = 1]]
       /\ UNCHANGED <<net, delivered>>

\* case events.CommitEvent
HandleCommitEvent(n) ==
    LET c == nodes[n]
        c1 == handleCommit([c EXCEPT !.events.commits = 0])
    IN /\ c.pc = "loop"
       /\ c.events.commits > 0
       /\ nodes' = [nodes EXCEPT ![n] = c1]
       /\ WithinBounds(nodes'[n])
       /\ UNCHANGED <<net, delivered>>

----------------------------------------------------------------------------
(* Spec: one core, A, whose peers B, C and D send it any message *)

Init ==
    /\ nodes = [n \in {"A"} |-> New(n)]
    /\ net \in Pools
    /\ delivered = 0
    /\ qValSet = NewValidatorSet
    /\ qCount = 0
    /\ qResult = <<>>

Next ==
    \/ \E n \in DOMAIN nodes : Start(n) /\ UNCHANGED <<qValSet, qCount, qResult>>
    \/ \E n \in DOMAIN nodes : DriverStartRound(n) /\ UNCHANGED <<qValSet, qCount, qResult>>
    \/ \E n \in DOMAIN nodes, id \in {"X"} : NewUnminedBlock(n, id) /\ UNCHANGED <<qValSet, qCount, qResult>>
    \/ \E n \in DOMAIN nodes : \E payload \in PeerPayloads :
            PeerMessage(n, payload) /\ UNCHANGED <<qValSet, qCount, qResult>>
    \/ \E n \in DOMAIN nodes : \E msg \in nodes[n].events.msgs :
            SelfMessage(n, msg) /\ UNCHANGED <<qValSet, qCount, qResult>>
    \/ \E n \in DOMAIN nodes : \E msg \in DOMAIN nodes[n].events.backlog :
            HandleBacklogEvent(n, msg) /\ UNCHANGED <<qValSet, qCount, qResult>>
    \/ \E n \in DOMAIN nodes, step \in {msgProposal, msgPrevote, msgPrecommit} :
            TimerFires(n, step) /\ UNCHANGED <<qValSet, qCount, qResult>>
    \/ \E n \in DOMAIN nodes : \E ev \in nodes[n].events.timeouts :
            HandleTimeout(n, ev) /\ UNCHANGED <<qValSet, qCount, qResult>>
    \/ \E n \in DOMAIN nodes, p \in {"A"} :
            ChainInsert(n, p) /\ UNCHANGED <<qValSet, qCount, qResult>>
    \/ \E n \in DOMAIN nodes : HandleCommitEvent(n) /\ UNCHANGED <<qValSet, qCount, qResult>>

Spec == Init /\ [][Next]_vars

----------------------------------------------------------------------------
(* SpecQuorum: Quorum applied to a count under a validator set of any size, *)
(* the empty set that backend.Validators returns on an error included       *)

ValidatorSetOfSize(n) == [NewValidatorSet EXCEPT !.validators = [i \in 1..n |-> i]]

InitQuorum ==
    /\ nodes = [n \in {"A"} |-> New(n)]
    /\ net = {}
    /\ delivered = 0
    /\ qValSet \in {ValidatorSetOfSize(n) : n \in 0..MaxValidators}
    /\ qCount \in 0..(MaxValidators + 1)
    /\ qResult = <<>>

CallQuorum ==
    /\ qResult = <<>>
    /\ qResult' = <<Quorum([New("A") EXCEPT !.valSet = qValSet], qCount)>>
    /\ UNCHANGED <<nodes, net, delivered, qValSet, qCount>>

NextQuorum == CallQuorum

SpecQuorum == InitQuorum /\ [][NextQuorum]_vars

----------------------------------------------------------------------------
(* C3 *)

\* C3 as stated: Quorum(i) is true exactly when i >= ceil(2n/3), that is when
\* 3i >= 2n, and a count of 0 is never a quorum
C3_AsStated ==
    qResult # <<>> =>
        /\ qResult[1] = (3 * qCount >= 2 * Size(qValSet))
        /\ (qCount = 0 => qResult[1] = FALSE)

\* C3, amended: Quorum(i) is true exactly when i >= ceil(2n/3), that is when
\* 3i >= 2n, for every size n of the validator set; a count of 0 is not a
\* quorum when the validator set is not empty (n >= 1)
C3_Quorum ==
    qResult # <<>> =>
        /\ qResult[1] = (3 * qCount >= 2 * Size(qValSet))
        /\ (qCount = 0 /\ Size(qValSet) >= 1 => qResult[1] = FALSE)

\* Quorum was applied to the count 0 under a validator set that is not empty
C3_Witness == qResult = <<FALSE>> /\ qCount = 0 /\ Size(qValSet) >= 1

----------------------------------------------------------------------------
(* C4 *)

SenderCount(ms, s) ==
    Cardinality({e \in ms.votes : e.msg.sender = s}) + Cardinality({m \in ms.nilvotes : m.sender = s})
VoteSets(c) == UNION {{c.rs[p].Prevotes, c.rs[p].Precommits} : p \in DOMAIN c.rs}
PeerSenders(ms) == Senders(ms) \ {"A"}

----------------------------------------------------------------------------
(* What a core may be handed next *)

Deliverable(c) == net \cup c.events.msgs \cup DOMAIN c.events.backlog

\* two more proposals of the current view: one whose valid round is not below
\* its round and one that is not from the proposer
InvalidProposals(c) ==
    {Message(msgProposal, Height(c), Round(c), c.valSet.proposer, Block(Height(c), "Y"), Round(c)),
     Message(msgProposal, Height(c), Round(c), "D", Block(Height(c), "Y"), -1)}

handler(c, msg) ==
    IF msg.code = msgProposal THEN handleProposal(c, msg)
    ELSE IF msg.code = msgPrevote THEN handlePrevote(c, msg)
    ELSE handlePrecommit(c, msg)

Parked(c, msg) == MapGet(c.backlogs, msg) + MapGet(c.events.backlog, msg)
IsOldErr(err) == err \in {errOldHeightMessage, errOldRoundMessage}

----------------------------------------------------------------------------
(* C10 *)

\* C10: in every reachable state and for every message the core may be handed,
\* the handler of the message itself stores nothing; handleCheckedMsg adds the
\* message to the backlog exactly when the handler classified it as future
\* height, future round or future step (a message that started its round is
\* then either still parked, in the backlog or among the backlog events, or
\* the new view made it an old message), and with any other outcome the
\* backlog is what the handler left
C10_BacklogIffFuture ==
    \A n \in DOMAIN nodes :
        LET c == nodes[n]
        IN c.pc = "loop" =>
            \A m \in Deliverable(c) \cup InvalidProposals(c) :
                LET res0 == handler(c, m)
                    res == handleCheckedMsg(c, m)
                    skipped == Round(res.c) # Round(res0.c) \/ Height(res.c) # Height(res0.c)
                IN /\ res.err = res0.err
                   /\ Parked(res0.c, m) <= Parked(c, m)
                   /\ ~IsFutureErr(res.err) => res.c = res0.c
                   /\ IsFutureErr(res.err) /\ ~skipped =>
                        /\ res.c.backlogs = BagAdd(res0.c.backlogs, m)
                        /\ res.c.events = res0.c.events
                   /\ IsFutureErr(res.err) /\ skipped =>
                        \/ Parked(res.c, m) = Parked(c, m) + 1
                        \/ IsOldErr(checkMessage(res.c, m.round, m.height, StepOfCode(m.code)))

\* one message of round 1 was delivered in round 0 and is in the backlog
C10_Witness ==
    LET c == nodes["A"]
    IN /\ net = PoolFuture /\ delivered = 1 /\ Round(c) = 0 /\ Height(c) = 1
       /\ \E m \in DOMAIN c.backlogs : m.round = 1 /\ m.height = 1 /\ c.backlogs[m] = 1
       /\ BagSize(c.backlogs) = 1

----------------------------------------------------------------------------
(* C2 *)

\* the validators whose messages of round r of the current height the core
\* has observed while r was a future round: all of them are in the backlog
FutureRoundSenders(c, r) ==
    {m.sender : m \in {x \in DOMAIN c.backlogs : x.height = Height(c) /\ x.round = r}}

RoundSkipped(c, res, m) ==
    /\ res.err = errFutureRoundMessage
    /\ Height(res.c) = Height(c)
    /\ Round(res.c) = m.round

\* C2: whenever handling a message of a future round R' of the current height
\* starts round R', strictly more than f distinct validators have sent a
\* message of (H, R'), the one being handled included
C2_DistinctSenders ==
    \A n \in DOMAIN nodes :
        LET c == nodes[n]
        IN c.pc = "loop" =>
            \A m \in Deliverable(c) :
                LET res == handleCheckedMsg(c, m)
                IN RoundSkipped(c, res, m) =>
                    Cardinality(FutureRoundSenders(c, m.round) \cup {m.sender}) > F(c.valSet)

\* the core is in round 1 of height 1 by a round skip: it has handled two
\* messages, both of round 1 and both of D
C2_Witness ==
    LET c == nodes["A"]
    IN /\ net = PoolFuture /\ delivered = 2
       /\ Height(c) = 1 /\ Round(c) = 1 /\ c.chain.number = 0
       /\ c.events.timeouts = {} /\ ~c.precommitTimeout.started
       /\ {m.sender : m \in DOMAIN c.backlogs \cup DOMAIN c.events.backlog} = {"D"}

----------------------------------------------------------------------------
(* C8 *)

CoreState(c) ==
    [height |-> Height(c), round |-> Round(c), step |-> Step(c),
     lockedRound |-> c.lockedRound, lockedValue |-> c.lockedValue,
     validRound |-> c.validRound, validValue |-> c.validValue,
     rs |-> c.rs, currentHeightOldRoundsStates |-> c.currentHeightOldRoundsStates,
     futureRoundsChange |-> c.futureRoundsChange,
     backlogs |-> DOMAIN c.backlogs]

\* C8: in every reachable state, handing the core a message of a peer and
\* then the same message again leaves height, round, step, lock and valid
\* values, vote sets, future round counters and the messages in the backlog as
\* they were after the first time
C8_Idempotent ==
    \A n \in DOMAIN nodes :
        LET c == nodes[n]
        IN c.pc = "loop" =>
            \A m \in net :
                LET first == handleCheckedMsg(c, m)
                    second == handleCheckedMsg(first.c, m)
                IN first.c.pc = "loop" => CoreState(second.c) = CoreState(first.c)

----------------------------------------------------------------------------
(* C9 *)

Timeouts(c) == {c.proposeTimeout, c.prevoteTimeout, c.precommitTimeout}
StaleTimeoutEvents(c) == {ev \in c.events.timeouts : ~SameView(c, ev)}
\* the events the three timers could have posted in any view
AllTimeoutEvents ==
    {TimeoutEvent(step, r, h) :
        step \in {msgProposal, msgPrevote, msgPrecommit}, r \in 0..MaxRound, h \in 1..MaxHeight}

\* C9: in every reachable state a timeout event of a view that is not the
\* current view, pending or not, is handled without any effect (the core, its
\* messages sent and its events stay as they are), and every timer that is
\* armed was armed for the current view
C9_StaleTimeout ==
    \A n \in DOMAIN nodes :
        LET c == nodes[n]
        IN c.pc \in {"loop", "waitBlock"} =>
            /\ \A ev \in AllTimeoutEvents \cup c.events.timeouts :
                    ~SameView(c, ev) => handleTimeoutEvent(c, ev) = c
            /\ \A t \in Timeouts(c) :
                    timerStarted(t) => t.round = Round(c) /\ t.height = Height(c)

\* a timer expired in round 0, the core has started round 1 since, and the
\* event of round 0 is still to be handled
C9_Witness ==
    LET c == nodes["A"]
    IN /\ c.pc = "loop" /\ Round(c) = 1 /\ Height(c) = 1
       /\ \E ev \in StaleTimeoutEvents(c) : ev.roundWhenCalled = 0 /\ ev.heightWhenCalled = 1
       /\ \A t \in Timeouts(c) : timerStarted(t) => t.round = 1

----------------------------------------------------------------------------
(* C5 *)

OwnPrecommits(c) ==
    {p \in c.out : p.code = msgPrecommit /\ p.height = Height(c) /\ p.value # NilHash}
OwnPrevotes(c) ==
    {q \in c.out : q.code = msgPrevote /\ q.height = Height(c) /\ q.value # NilHash}

MayPrevote(c, m) ==
    IF m.validRound = -1
    THEN c.lockedRound = -1 \/ c.lockedValue = m.value
    ELSE c.lockedRound <= m.validRound \/ c.lockedValue = m.value

\* C5: in every reachable state, (1) whatever proposal the core is handed, the
\* only message it may send is one prevote, sent in step propose: for the
\* proposed block if lockedRound = -1 or lockedValue is the block (validRound
\* -1), or if lockedRound <= validRound or lockedValue is the block (validRound
\* >= 0), and nil otherwise; (2) the lock outlives the rounds of the height: it
\* is at least as recent as the last block the node precommitted; (3) a prevote
\* of the current round for a block other than one precommitted earlier in the
\* height comes with a proposal whose validRound is not below that precommit,
\* or after a later precommit for the prevoted block
C5_LockRule ==
    \A n \in DOMAIN nodes :
        LET c == nodes[n]
        IN c.pc = "loop" =>
            /\ \A m \in {x \in Deliverable(c) \cup InvalidProposals(c) : x.code = msgProposal} :
                    LET res == handleProposal(c, m)
                    IN \A pm \in res.c.out \ c.out :
                        /\ pm.code = msgPrevote /\ Step(c) = propose /\ res.err = errNil
                        /\ pm.value \in {NilHash, HashOf(m.value)}
                        /\ pm.value = HashOf(m.value) <=> MayPrevote(c, m)
            /\ OwnPrecommits(c) # {} =>
                    LET last == Max({p.round : p \in OwnPrecommits(c)})
                    IN /\ c.lockedRound >= last
                       /\ c.lockedRound = last =>
                            \E p \in OwnPrecommits(c) : p.round = last /\ p.value = HashOf(c.lockedValue)
            /\ \A q \in OwnPrevotes(c), p \in OwnPrecommits(c) :
                    q.round = Round(c) /\ p.round < q.round /\ p.value # q.value =>
                        \/ Cur(c).proposal.validRound >= p.round
                        \/ \E p2 \in OwnPrecommits(c) :
                                p.round < p2.round /\ p2.round < q.round /\ p2.value = q.value

\* the node locked X in round 0, was handed the proposal of Y in round 1 and
\* has sent its nil prevote of round 1
C5_Witness ==
    LET c == nodes["A"]
    IN /\ c.lockedRound = 0 /\ c.lockedValue = Block(1, "X")
       /\ Height(c) = 1 /\ Round(c) = 1
       /\ Cur(c).proposal = [block |-> Block(1, "Y"), validRound |-> -1]
       /\ ~c.proposeTimeout.fired /\ ~timerStarted(c.proposeTimeout)
       /\ Message(msgPrevote, 1, 1, "A", NilHash, -1) \in c.out

----------------------------------------------------------------------------
(* C6 *)

\* the precommits of the round and for the block of one call of backend.Commit
OwnRoundPrecommits(rec) ==
    {v \in rec.votes : /\ v.code = msgPrecommit /\ v.height = rec.height
                        /\ v.round = rec.round /\ v.value = HashOf(rec.block)}

----------------------------------------------------------------------------
(* SpecNet: the three honest validators A, B and D each run a core; C is    *)
(* Byzantine.  The adversary owns C and the network: it chooses what C      *)
(* sends to whom, and how long each message of an honest validator travels. *)
(* SpecNet fixes one such plan and leaves the order of all events open.     *)
(* delivered[n] is the set of peer messages node n has handled.             *)

Honest == {"A", "B", "D"}

\* what C sends, and to whom
ByzantinePlan ==
    {[to |-> "A", msg |-> Prevote(0, "C", "X")],
     [to |-> "B", msg |-> Prevote(0, "C", "nil")],
     [to |-> "D", msg |-> Prevote(0, "C", "nil")],
     [to |-> "B", msg |-> Prevote(1, "C", "Y")],
     [to |-> "D", msg |-> Prevote(1, "C", "Y")],
     [to |-> "B", msg |-> Precommit(1, "C", "Y")]}
    \cup UNION {{[to |-> n, msg |-> Proposal(2, "C", "X", -1)],
                 [to |-> n, msg |-> Prevote(2, "C", "X")],
                 [to |-> n, msg |-> Precommit(2, "C", "X")]} : n \in {"A", "D"}}

\* the delays of the network: no message reaches a node before the node is in
\* the round of the message; the prevote of B of round 0 reaches A and D when
\* they are in round 2, the prevote of D of round 0 does not reach B
Arrived(n, m) ==
    /\ m.round <= Round(nodes[n])
    /\ m = Prevote(0, "B", "X") => Round(nodes[n]) = 2
    /\ ~(m = Prevote(0, "D", "X") /\ n = "B")

InFlight(n) ==
    {m \in UNION {nodes[s].out : s \in DOMAIN nodes \ {n}} \cup {x.msg : x \in {y \in net : y.to = n}} :
        m \notin delivered[n] /\ Arrived(n, m)}

\* a node that has something to do without waiting for a timer
Busy(n) ==
    \/ nodes[n].pc # "loop"
    \/ nodes[n].events.msgs # {}
    \/ nodes[n].events.backlog # EmptyBag
    \/ nodes[n].events.timeouts # {}
    \/ nodes[n].events.commits > 0
    \/ nodes[n].committed # {} /\ nodes[n].chain.number = 0
    \/ InFlight(n) # {}

\* the schedule: of the nodes that have something to do the first one runs,
\* and a node handles its own messages before those of its peers
Rank(n) == IndexOf(ValidatorList, n)
BusyNodes == {n \in DOMAIN nodes : Busy(n)}
Running == LET busy == BusyNodes IN {n \in busy : \A k \in busy : Rank(n) <= Rank(k)}

\* the miner of A builds X, the miners of B and D build Y
Candidate(n) == IF n = "A" THEN "X" ELSE "Y"

NetMessage(n, msg) ==
    LET c == nodes[n]
        c1 == HandlePayload(c, Encode(msg))
    IN /\ c.pc = "loop"
       /\ c.events.msgs = {}
       /\ c.events.backlog = EmptyBag
       /\ msg \in InFlight(n)
       /\ nodes' = [nodes EXCEPT ![n] = c1]
       /\ WithinBounds(nodes'[n])
       /\ delivered' = [delivered EXCEPT ![n] = @ \cup {msg}]
       /\ UNCHANGED net

\* timeouts are long: a timer expires when no node has anything else to do;
\* the run is over once a node has left height 1
NetTimerFires(n, step) ==
    /\ BusyNodes = {}
    /\ Height(nodes[n]) = 1
    /\ TimerFires(n, step)

\* the block a node handed to backend.Commit becomes the head of its chain;
\* X was built by A and Y by B
NetChainInsert(n) ==
    /\ nodes[n].chain.number = 0
    /\ \E rec \in nodes[n].committed :
        /\ rec.height = 1
        /\ ChainInsert(n, IF rec.block.id = "X" THEN "A" ELSE "B")

InitNet ==
    /\ nodes = [n \in Honest |-> New(n)]
    /\ net = ByzantinePlan
    /\ delivered = [n \in Honest |-> {}]
    /\ qValSet = NewValidatorSet
    /\ qCount = 0
    /\ qResult = <<>>

NextNet ==
    LET running == Running IN
    \/ \E n \in running : Start(n) /\ UNCHANGED <<qValSet, qCount, qResult>>
    \/ \E n \in running : DriverStartRound(n) /\ UNCHANGED <<qValSet, qCount, qResult>>
    \/ \E n \in running : NewUnminedBlock(n, Candidate(n)) /\ UNCHANGED <<qValSet, qCount, qResult>>
    \/ \E n \in running : \E msg \in InFlight(n) :
            NetMessage(n, msg) /\ UNCHANGED <<qValSet, qCount, qResult>>
    \/ \E n \in running : \E msg \in nodes[n].events.msgs :
            SelfMessage(n, msg) /\ UNCHANGED <<qValSet, qCount, qResult>>
    \/ \E n \in running : \E msg \in DOMAIN nodes[n].events.backlog :
            HandleBacklogEvent(n, msg) /\ UNCHANGED <<qValSet, qCount, qResult>>
    \/ \E n \in DOMAIN nodes, step \in {msgProposal, msgPrevote, msgPrecommit} :
            NetTimerFires(n, step) /\ UNCHANGED <<qValSet, qCount, qResult>>
    \/ \E n \in running : \E ev \in nodes[n].events.timeouts :
            HandleTimeout(n, ev) /\ UNCHANGED <<qValSet, qCount, qResult>>
    \/ \E n \in running : NetChainInsert(n) /\ UNCHANGED <<qValSet, qCount, qResult>>
    \/ \E n \in running : HandleCommitEvent(n) /\ UNCHANGED <<qValSet, qCount, qResult>>

SpecNet == InitNet /\ [][NextNet]_vars

----------------------------------------------------------------------------
(* SpecLive: A, the proposer of round 0 of height 1, has crashed; B, C and  *)
(* D each run a core.  Every message is delivered, the event loop of a node *)
(* that has an event to handle eventually handles it, and timeouts are      *)
(* long.  The rounds of the model are bounded, so SpecLive says nothing     *)
(* about a validator that sends messages of ever later rounds.              *)

Alive == {"B", "C", "D"}

InitLive ==
    /\ nodes = [n \in Alive |-> New(n)]
    /\ net = {}
    /\ delivered = [n \in Alive |-> {}]
    /\ qValSet = NewValidatorSet
    /\ qCount = 0
    /\ qResult = <<>>

\* a timer of the node is running
Armed(n) ==
    \E t \in {nodes[n].proposeTimeout, nodes[n].prevoteTimeout, nodes[n].precommitTimeout} :
        t.started /\ ~t.fired

\* the order in which a validator sends its messages
Sooner(m1, m2) ==
    \/ m1.height < m2.height
    \/ m1.height = m2.height /\ m1.round < m2.round
    \/ /\ m1.height = m2.height /\ m1.round = m2.round
       /\ StepOrd(StepOfCode(m1.code)) < StepOrd(StepOfCode(m2.code))

\* the link between two validators keeps the order of the messages
LiveMessage(n, msg) ==
    /\ \A m \in InFlight(n) : m.sender = msg.sender => ~Sooner(m, msg)
    /\ NetMessage(n, msg)

\* timeouts are long, and the timers of B expire before those of C and D
LiveTimerFires(n, step) ==
    /\ \A k \in DOMAIN nodes : Rank(k) < Rank(n) => ~Armed(k)
    /\ NetTimerFires(n, step)

NextLive ==
    LET running == Running IN
    \/ \E n \in running : Start(n) /\ UNCHANGED <<qValSet, qCount, qResult>>
    \/ \E n \in running : DriverStartRound(n) /\ UNCHANGED <<qValSet, qCount, qResult>>
    \/ \E n \in running : NewUnminedBlock(n, Candidate(n)) /\ UNCHANGED <<qValSet, qCount, qResult>>
    \/ \E n \in running : \E msg \in InFlight(n) :
            LiveMessage(n, msg) /\ UNCHANGED <<qValSet, qCount, qResult>>
    \/ \E n \in running : \E msg \in nodes[n].events.msgs :
            SelfMessage(n, msg) /\ UNCHANGED <<qValSet, qCount, qResult>>
    \/ \E n \in running : \E msg \in DOMAIN nodes[n].events.backlog :
            HandleBacklogEvent(n, msg) /\ UNCHANGED <<qValSet, qCount, qResult>>
    \/ \E n \in DOMAIN nodes, step \in {msgProposal, msgPrevote, msgPrecommit} :
            LiveTimerFires(n, step) /\ UNCHANGED <<qValSet, qCount, qResult>>
    \/ \E n \in running : \E ev \in nodes[n].events.timeouts :
            HandleTimeout(n, ev) /\ UNCHANGED <<qValSet, qCount, qResult>>
    \/ \E n \in running : NetChainInsert(n) /\ UNCHANGED <<qValSet, qCount, qResult>>
    \/ \E n \in running : HandleCommitEvent(n) /\ UNCHANGED <<qValSet, qCount, qResult>>

\* the event loop of a node does not stop: an event that can be handled is handled
SpecLive == InitLive /\ [][NextLive]_vars /\ WF_vars(NextLive)

\* with A crashed and the network synchronous, every running validator
\* eventually hands a block of each height below MaxHeight to backend.Commit
CrashedProposerLiveness ==
    <>(\A n \in DOMAIN nodes : \A h \in 1..(MaxHeight - 1) :
            \E rec \in nodes[n].committed : rec.height = h)

\* the three running validators have committed at height 1, in round 1, after
\* their timers of round 0 have expired
CrashedProposerCommitted ==
    /\ DOMAIN nodes = Alive
    /\ \A n \in Alive : \E rec \in nodes[n].committed : rec.height = 1 /\ rec.round = 1

----------------------------------------------------------------------------
(* C1 *)

\* C1: no two honest validators hand blocks with different hashes to
\* backend.Commit at the same height
C1_Agreement ==
    \A n1 \in DOMAIN nodes : \A n2 \in DOMAIN nodes \ {n1} :
        \A r1 \in nodes[n1].committed, r2 \in nodes[n2].committed :
            r1.height = r2.height => HashOf(r1.block) = HashOf(r2.block)

\* two honest validators have committed at height 1
C1_Witness ==
    \E n1 \in DOMAIN nodes, n2 \in DOMAIN nodes :
        /\ n1 # n2
        /\ \E r1 \in nodes[n1].committed, r2 \in nodes[n2].committed : r1.height = 1 /\ r2.height = 1

----------------------------------------------------------------------------
(* C11 *)

\* C11: in every reachable state of a running driver, every payload that
\* fails decoding or the verification of its signature and sender (a
\* malformed variant of any message the core may be handed, the message of the
\* current view that would change the core included) is dropped: handleMsg
\* returns the error of FromPayload, the core is left exactly as it was
\* (round states, backlog, future round counters, events, messages sent),
\* nothing is handed to Gossip, and the driver stays in its loop
C11_MalformedDropped ==
    \A n \in DOMAIN nodes :
        LET c == nodes[n]
        IN c.pc = "loop" =>
            \A p \in PeerPayloads \cup Malformed(Deliverable(c)) :
                LET err == FromPayload(p, c.valSet)
                    ev == MessageEvent(c, p)
                IN err # errNil =>
                    /\ ev.err = err
                    /\ ev.err \in {errFailedDecode, errUnauthorizedAddress}
                    /\ ev.c = c
                    /\ ev.gossip = {}
                    /\ ev.c.pc = "loop"

\* the driver has handled two payloads of its peers, both malformed: the core
\* is in round 0 of height 1 and holds no vote and no message of a peer
C11_Witness ==
    LET c == nodes["A"]
    IN /\ net = PoolRoundZero /\ delivered = 2 /\ c.pc = "loop"
       /\ Height(c) = 1 /\ Round(c) = 0 /\ c.chain.number = 0
       /\ PeerSenders(Cur(c).Prevotes) = {} /\ PeerSenders(Cur(c).Precommits) = {}
       /\ c.backlogs = EmptyBag /\ c.events.backlog = EmptyBag
       /\ c.futureRoundsChange = [k \in {} |-> 0]

----------------------------------------------------------------------------
(* C12 *)

\* handleMsg goes on to handleCheckedMsg
AcceptedForProcessing(c, payload) == FromPayload(payload, c.valSet) = errNil

\* C12: in every reachable state of a running driver, every payload that
\* handleMsg accepts for processing is signed by a member of the validator
\* set of the height of its message, and every validator whose vote is in a
\* vote set of the core is a member of the validator set of the height of
\* that vote set
C12_SenderOfMessageHeight ==
    \A n \in DOMAIN nodes :
        LET c == nodes[n]
        IN c.pc = "loop" =>
            /\ \A p \in PeerPayloads :
                    AcceptedForProcessing(c, p) =>
                        p.signer \in RangeOf(ValidatorsOfHeight(p.msg.height))
            /\ \A ptr \in DOMAIN c.rs :
                    Senders(c.rs[ptr].Prevotes) \cup Senders(c.rs[ptr].Precommits)
                        \subseteq RangeOf(ValidatorsOfHeight(c.rs[ptr].height))

\* the core is at height 2, whose validators are A, B, C and E, and its
\* prevote set of round 0 holds the prevote of D
C12_Witness ==
    LET c == nodes["A"]
    IN /\ Height(c) = 2 /\ Round(c) = 0 /\ c.pc = "loop"
       /\ "D" \notin RangeOf(c.valSet.validators)
       /\ "D" \in Senders(Cur(c).Prevotes)

----------------------------------------------------------------------------
(* C13 *)

\* the round state kept for round k of the current height
OldRoundState(c, k) == c.rs[c.currentHeightOldRoundsStates[k]]
\* the chain head has not moved: startRound stays at the height of the core
SameHeight(c) == LastCommittedProposal(c).number + 1 = Height(c)
RoundContent(rs) == [proposal |-> rs.proposal, Prevotes |-> rs.Prevotes, Precommits |-> rs.Precommits]

\* C13: in every reachable state, starting any later round R' of the same
\* height (R + 1 or further) leaves the proposal and the votes of the round R
\* the core was in retrievable under key R of the old round states, as they
\* were, and leaves the old round states that were already stored as they
\* were; every key of the old round states is a round below the current round
C13_OldRoundKept ==
    \A n \in DOMAIN nodes :
        LET c == nodes[n]
        IN c.pc = "loop" =>
            /\ \A k \in DOMAIN c.currentHeightOldRoundsStates : k < Round(c)
            /\ SameHeight(c) =>
                    \A r \in (Round(c) + 1)..MaxRound :
                        LET c1 == startRound(c, r)
                        IN /\ Round(c) \in DOMAIN c1.currentHeightOldRoundsStates
                           /\ RoundContent(OldRoundState(c1, Round(c))) = RoundContent(Cur(c))
                           /\ \A k \in DOMAIN c.currentHeightOldRoundsStates :
                                /\ k \in DOMAIN c1.currentHeightOldRoundsStates
                                /\ RoundContent(OldRoundState(c1, k)) = RoundContent(OldRoundState(c, k))

\* the core is in round 1 and what it keeps under key 0 of the old round
\* states is the object of the current round: it says round 1
C13_Witness ==
    LET c == nodes["A"]
    IN /\ c.pc = "loop" /\ Height(c) = 1 /\ Round(c) = 1
       /\ 0 \in DOMAIN c.currentHeightOldRoundsStates
       /\ c.currentHeightOldRoundsStates[0] = c.currentRoundState
       /\ OldRoundState(c, 0).round = 1

----------------------------------------------------------------------------
(* C14 *)

VotesOf(rs, code) == IF code = msgPrevote THEN rs.Prevotes ELSE rs.Precommits
\* the votes of rounds below r in a vote set
LateVotes(ms, r) == {e.msg : e \in {x \in ms.votes : x.msg.round < r}} \cup {m \in ms.nilvotes : m.round < r}

\* C14: in every reachable state, handling any vote of the current height and
\* of a round R_old below the current round puts the vote in the vote set
\* kept for R_old in the old round states and leaves the vote sets of the
\* current round as they were; no vote set of the current round holds a vote
\* of an earlier round
C14_OldRoundVote ==
    \A n \in DOMAIN nodes :
        LET c == nodes[n]
        IN c.pc = "loop" =>
            /\ LateVotes(Cur(c).Prevotes, Round(c)) = {}
            /\ LateVotes(Cur(c).Precommits, Round(c)) = {}
            /\ \A m \in {x \in Deliverable(c) : /\ x.code # msgProposal /\ x.height = Height(c)
                                                  /\ x.round < Round(c)} :
                    LET c1 == handleCheckedMsg(c, m).c
                    IN /\ m.round \in DOMAIN c1.currentHeightOldRoundsStates
                       /\ m.sender \in Senders(VotesOf(OldRoundState(c1, m.round), m.code))
                       /\ Cur(c1).Prevotes = Cur(c).Prevotes
                       /\ Cur(c1).Precommits = Cur(c).Precommits

\* the core is in round 1 and the prevote of B of round 0, handled in round
\* 1, is in the prevote set of round 1
C14_Witness ==
    LET c == nodes["A"]
    IN /\ c.pc = "loop" /\ Height(c) = 1 /\ Round(c) = 1
       /\ Prevote(0, "B", "X") \in LateVotes(Cur(c).Prevotes, 1)

----------------------------------------------------------------------------
(* C15 *)

\* the (height, round, step) of the message is less than or equal to the
\* current one
ViewLeq(c, m) ==
    \/ m.height < Height(c)
    \/ m.height = Height(c) /\ m.round < Round(c)
    \/ m.height = Height(c) /\ m.round = Round(c) /\ StepOrd(StepOfCode(m.code)) <= StepOrd(Step(c))

\* the view (height, round) of the message is the current one, or lies before it
SameViewMsg(c, m) == m.height = Height(c) /\ m.round = Round(c)
PastViewMsg(c, m) == m.height < Height(c) \/ (m.height = Height(c) /\ m.round < Round(c))

\* C15: in every reachable state the backlog holds no message whose (height,
\* round, step) is less than or equal to the current one.  Whatever step the
\* core is set to next and whatever later round it starts next, afterwards
\* the backlog holds none either, and of the messages it held: one of a later
\* view is still there, as often as before; one of the current view is still
\* there or was popped and is among the backlog events as often as it was
\* stored; one of a past view is gone and was not re-fed
C15_BacklogOnlyFuture ==
    \A n \in DOMAIN nodes :
        LET c == nodes[n]
        IN c.pc = "loop" =>
            /\ \A m \in DOMAIN c.backlogs : ~ViewLeq(c, m)
            /\ \A c1 \in {setStep(c, step) : step \in {propose, prevote, precommit, precommitDone}}
                        \cup {startRound(c, r) : r \in (Round(c) + 1)..MaxRound} :
                    \A m \in DOMAIN c.backlogs :
                        /\ m \in DOMAIN c1.backlogs => ~ViewLeq(c1, m)
                        /\ ~SameViewMsg(c1, m) /\ ~PastViewMsg(c1, m) =>
                                MapGet(c1.backlogs, m) = c.backlogs[m]
                        /\ SameViewMsg(c1, m) =>
                                \/ MapGet(c1.backlogs, m) = c.backlogs[m]
                                \/ /\ m \notin DOMAIN c1.backlogs
                                   /\ MapGet(c1.events.backlog, m) = MapGet(c.events.backlog, m) + c.backlogs[m]
                        /\ PastViewMsg(c1, m) =>
                                /\ m \notin DOMAIN c1.backlogs
                                /\ MapGet(c1.events.backlog, m) = MapGet(c.events.backlog, m)

\* the core is in step prevote of round 1: the prevote of D of round 1 was
\* popped and is a backlog event, the prevote of height 2 is still in the
\* backlog
C15_Witness ==
    LET c == nodes["A"]
    IN /\ c.pc = "loop" /\ Height(c) = 1 /\ Round(c) = 1 /\ Step(c) = prevote
       /\ Prevote(1, "D", "X") \in DOMAIN c.events.backlog
       /\ DOMAIN c.backlogs = {Message(msgPrevote, 2, 0, "D", HashOf(Block(2, "X")), -1)}

----------------------------------------------------------------------------
(* C16 *)

\* the proposals of the current view among the backlog events: the backlog
\* held them until the core entered step propose of their round
EligibleProposals(c) ==
    {m \in DOMAIN c.events.backlog : m.code = msgProposal /\ SameViewMsg(c, m)}

\* C16: a timer of a round is armed after the core has entered step propose
\* of the round, so that its timeout event arrives after that transition;
\* while a proposal that the transition made eligible is still a backlog
\* event, no step of the driver handles a timeout event of the current view
C16_BacklogBeforeTimeout ==
    [][\A n \in DOMAIN nodes :
            LET c == nodes[n]
            IN \A ev \in c.events.timeouts :
                SameView(c, ev) /\ EligibleProposals(c) # {} =>
                    ev \in nodes'[n].events.timeouts]_vars

\* the core has started round 1, the proposal of B of round 1 is still a
\* backlog event, and the core has handled the propose timeout of round 1 and
\* sent its nil prevote
C16_Witness ==
    LET c == nodes["A"]
    IN /\ c.pc = "loop" /\ Height(c) = 1 /\ Round(c) = 1
       /\ Proposal(1, "B", "X", -1) \in EligibleProposals(c)
       /\ Cur(c).proposal = NoProposal
       /\ Message(msgPrevote, 1, 1, "A", NilHash, -1) \in c.out

----------------------------------------------------------------------------
(* SpecProposer: CalcProposer applied to a validator set of any size, to    *)
(* the proposer of the last committed block, which is one of the validators *)
(* or nobody (no block was committed yet), and to any round                 *)

ValidatorNames == <<"A", "B", "C", "D", "E", "F", "G", "H", "I", "J", "K", "L">>
ValidatorSetOf(n) == [NewValidatorSet EXCEPT !.validators = SubSeq(ValidatorNames, 1, n)]

InitProposer ==
    /\ qValSet \in {ValidatorSetOf(n) : n \in 1..MaxProposerSet}
    /\ nodes \in {[n \in {"A"} |-> [New(n) EXCEPT !.chain.proposer = last]] :
                    last \in RangeOf(qValSet.validators) \cup {NoAddr}}
    /\ net = {}
    /\ delivered = 0
    /\ qCount \in 0..MaxProposerRound
    /\ qResult = <<>>

\* setCore: c.valSet.CalcProposer(lastProposer, r.Uint64())
CallCalcProposer ==
    /\ qResult = <<>>
    /\ qResult' = <<CalcProposer(qValSet, LastCommittedProposal(nodes["A"]).proposer, qCount)>>
    /\ UNCHANGED <<nodes, net, delivered, qValSet, qCount>>

NextProposer == CallCalcProposer

SpecProposer == InitProposer /\ [][NextProposer]_vars

----------------------------------------------------------------------------
(* C17 *)

----------------------------------------------------------------------------
(* SpecPropose: one core, B, the proposer of round 1 of height 1.  Its      *)
(* peers send it the proposal of round 0 and votes of round 0: prevotes for *)
(* the proposal, which make it the valid value, and nil precommits, which   *)
(* end the round                                                            *)

PoolProposer ==
    {Proposal(0, "A", "X", -1), Prevote(0, "A", "X"), Prevote(0, "C", "X"),
     Precommit(0, "A", "nil"), Precommit(0, "C", "nil")}

InitPropose ==
    /\ nodes = [n \in {"B"} |-> New(n)]
    /\ net = PoolProposer
    /\ delivered = 0
    /\ qValSet = NewValidatorSet
    /\ qCount = 0
    /\ qResult = <<>>

SpecPropose == InitPropose /\ [][Next]_vars

----------------------------------------------------------------------------
(* C18 *)

\* the rounds startRound is called with: a later round, or round 0 of a new
\* height
NextRounds(c) == (Round(c) + 1)..MaxRound \cup (IF SameHeight(c) THEN {} ELSE {0})
ProposalsSent(c, c1) == {p \in c1.out \ c.out : p.code = msgProposal}

----------------------------------------------------------------------------
(* C19 *)

\* C19: in every reachable state, whatever round startRound is called with
\* next (round 0 by the driver when it starts or at a new height, a later
\* round by a timeout or a round skip), after startRound the core is in step
\* propose of that round, its prevote and precommit timeouts are not armed,
\* and its propose timeout is armed, for the round and the height of the
\* core, exactly if the core is not the proposer of the round
C19_AfterStartRound ==
    \A n \in DOMAIN nodes :
        LET c == nodes[n]
        IN \A r \in (IF c.pc = "loop" THEN NextRounds(c) ELSE IF c.pc = "started" THEN {0} ELSE {}) :
            LET c1 == startRound(c, r)
            IN /\ Step(c1) = propose /\ Round(c1) = r
               /\ Height(c1) = LastCommittedProposal(c).number + 1
               /\ ~timerStarted(c1.prevoteTimeout)
               /\ ~timerStarted(c1.precommitTimeout)
               /\ isProposer(c1) => ~timerStarted(c1.proposeTimeout)
               /\ ~isProposer(c1) => c1.proposeTimeout = scheduleTimeout(r, Height(c1))

\* the core, not the proposer of round 1, has started round 1 after the
\* precommit timeout of round 0: it is in step propose and the propose
\* timeout of (1, 1) is the only timer armed
C19_Witness ==
    LET c == nodes["A"]
    IN /\ c.pc = "loop" /\ Height(c) = 1 /\ Round(c) = 1 /\ Step(c) = propose
       /\ ~isProposer(c)
       /\ c.proposeTimeout = scheduleTimeout(1, 1)
       /\ ~timerStarted(c.prevoteTimeout) /\ ~timerStarted(c.precommitTimeout)
       /\ TimeoutEvent(msgPrecommit, 0, 1) \notin c.events.timeouts
       /\ c.backlogs = EmptyBag /\ c.events.backlog = EmptyBag

----------------------------------------------------------------------------
(* C20 *)

\* C20: in every reachable state and whatever round startRound is called
\* with next (round 0 by the driver when it starts or at a new height, a
\* later round by a timeout or a round skip): startRound(0) leaves
\* lockedRound = -1, lockedValue and validValue unset, validRound = -1, no old
\* round state and no future round counter; and after startRound of any
\* round sentPrevote, sentPrecommit and setValidRoundAndValue are false and
\* sentProposal is false unless this startRound itself broadcast the proposal
\* of the new view: no flag of the round before survives
C20_StartRoundResets ==
    \A n \in DOMAIN nodes :
        LET c == nodes[n]
        IN \A r \in (IF c.pc = "loop" THEN NextRounds(c) ELSE IF c.pc = "started" THEN {0} ELSE {}) :
            LET c1 == startRound(c, r)
            IN /\ r = 0 =>
                    /\ c1.lockedRound = -1 /\ c1.lockedValue = NoBlock
                    /\ c1.validRound = -1 /\ c1.validValue = NoBlock
                    /\ DOMAIN c1.currentHeightOldRoundsStates = {}
                    /\ DOMAIN c1.rs = {c1.currentRoundState}
                    /\ DOMAIN c1.futureRoundsChange = {}
               /\ ~c1.sentPrevote /\ ~c1.sentPrecommit /\ ~c1.setValidRoundAndValue
               /\ c1.sentProposal <=> ProposalsSent(c, c1) # {}
               /\ \A p \in ProposalsSent(c, c1) : p.round = r /\ p.height = Height(c1)

\* the core precommitted X in round 0 of height 1, so it was locked on X,
\* and is now in round 0 of height 2 with no lock, no valid value, no old
\* round state, no future round counter and none of the four flags set
C20_Witness ==
    LET c == nodes["A"]
    IN /\ c.pc = "loop" /\ Height(c) = 2 /\ Round(c) = 0 /\ Step(c) = propose
       /\ Precommit(0, "A", "X") \in c.out
       /\ c.lockedRound = -1 /\ c.lockedValue = NoBlock
       /\ c.validRound = -1 /\ c.validValue = NoBlock
       /\ DOMAIN c.currentHeightOldRoundsStates = {} /\ DOMAIN c.futureRoundsChange = {}
       /\ ~c.sentProposal /\ ~c.sentPrevote /\ ~c.sentPrecommit /\ ~c.setValidRoundAndValue

----------------------------------------------------------------------------
(* C21 *)

\* C21: in every reachable state of every core, lockedRound = -1 exactly when
\* lockedValue is unset and validRound = -1 exactly when validValue is unset,
\* and a round that is set is a round the core has been in
C21_LockPairs ==
    \A n \in DOMAIN nodes :
        LET c == nodes[n]
        IN /\ (c.lockedRound = -1) <=> (c.lockedValue = NoBlock)
           /\ (c.validRound = -1) <=> (c.validValue = NoBlock)
           /\ c.lockedRound \in -1..Round(c)
           /\ c.validRound \in -1..Round(c)

\* the core has locked in round 0 the block proposed there, after a quorum of
\* prevotes for it at step prevote; the valid pair holds the same
C21_Witness ==
    LET c == nodes["A"]
    IN /\ c.pc = "loop"
       /\ c.lockedRound = 0 /\ c.lockedValue # NoBlock
       /\ c.validRound = 0 /\ c.validValue = c.lockedValue

----------------------------------------------------------------------------
(* C22 *)

\* the height-scoped fields of a core that has just entered its height
FreshHeight(c) ==
    /\ Round(c) = 0
    /\ c.lockedRound = -1 /\ c.lockedValue = NoBlock
    /\ c.validRound = -1 /\ c.validValue = NoBlock
    /\ c.valSet.validators = ValidatorsOfHeight(Height(c))
    /\ DOMAIN c.currentHeightOldRoundsStates = {}
    /\ DOMAIN c.futureRoundsChange = {}

\* C22: in every step of a running driver that changes the height of the
\* core, the new round is 0 and the lock and valid fields, the validator set,
\* the old round states and the future round counters are those of a fresh
\* height, whichever handler (commit notification, timeout, round skip) made
\* the step
C22_RoundZeroOnHeightChange ==
    [][\A n \in DOMAIN nodes :
            (nodes[n].pc = "loop" /\ Height(nodes'[n]) # Height(nodes[n]))
                => FreshHeight(nodes'[n])]_vars

\* the core is at height 2 in round 1, with the validator set of height 1,
\* and the commit notification of block 1 has been handled
C22_Witness ==
    LET c == nodes["A"]
    IN /\ c.pc = "loop" /\ c.chain.number = 1 /\ c.events.commits = 0
       /\ Height(c) = 2 /\ Round(c) = 1
       /\ c.valSet.validators = ValidatorsOfHeight(1)
       /\ c.valSet.validators # ValidatorsOfHeight(2)

----------------------------------------------------------------------------
(* SpecCommit: core A with a backend whose Commit returns an error for     *)
(* every block; its peers send it the votes of round 0                      *)

InitCommit ==
    /\ nodes = [n \in {"A"} |-> [New(n) EXCEPT !.commitFails = TRUE]]
    /\ net = PoolRoundZero
    /\ delivered = 0
    /\ qValSet = NewValidatorSet
    /\ qCount = 0
    /\ qResult = <<>>

SpecCommit == InitCommit /\ [][Next]_vars

----------------------------------------------------------------------------
(* C23 *)

\* the round state once the precommit is accepted
WithPrecommit(c, m) == acceptVote(Cur(c), precommit, m.value, m)
\* the rule of commit: with the precommit m of the current view the core has
\* the proposal of the round and a quorum of precommits for its hash
CommitRule(c, m) ==
    /\ m.code = msgPrecommit
    /\ checkMessage(c, m.round, m.height, precommit) = errNil
    /\ Cur(c).proposal # NoProposal
    /\ Quorum(c, VotesSize(WithPrecommit(c, m).Precommits, GetCurrentProposalHash(Cur(c))))

----------------------------------------------------------------------------
(* Start and Stop.  The life of a core: the four flag words, the context   *)
(* of the running engine, the event subscriptions, the channel stopped and *)
(* the goroutines Start spawns.  lc.threads holds the position of every    *)
(* goroutine of the host inside its call of Start or Stop, lc.loops the    *)
(* positions of the driver and of the unmined block loop spawned with each *)
(* context, lc.calls how often each callee was called.                     *)

Callers == 1..MaxCallers
\* c.cancel before the first Start
NilCancel == 0
\* make(chan struct{}, 3)
StoppedCap == 3

NoCalls ==
    [backendStart |-> 0, subscribeEvents |-> 0, Update |-> 0, go |-> 0,
     cancel |-> 0, unsubscribeEvents |-> 0, receive |-> 0, backendClose |-> 0]

\* a goroutine of the host: the call it is in or has returned from, its
\* position, the statement it returned at, what it returned, the error it
\* will return and the context it made or cancelled
IdleThread ==
    [op |-> "none", pc |-> "idle", at |-> "none", ret |-> "none", err |-> "nil", ctx |-> NilCancel]

NewLifecycle ==
    [isStarting |-> 0, isStarted |-> 0, isStopping |-> 0, isStopped |-> 0,
     stopped |-> 0,
     cancel |-> NilCancel,
     messageEventSub |-> "nil",
     contexts |-> 0,
     done |-> {},
     hostDone |-> FALSE,
     loops |-> [k \in {} |-> 0],
     calls |-> NoCalls,
     panicked |-> FALSE,
     made |-> 0,
     threads |-> [t \in Callers |-> IdleThread]]

\* ctx.Done() of the context made by the k-th context.WithCancel: its cancel
\* function was called, or the context of the host was cancelled
CtxDone(lc, k) == lc.hostDone \/ k \in lc.done

Goto(lc, t, pc) == [lc EXCEPT !.threads[t].pc = pc]
Return(lc, t, ret) ==
    [lc EXCEPT !.threads[t].pc = "returned", !.threads[t].at = lc.threads[t].pc,
               !.threads[t].ret = ret]
\* a nil pointer is dereferenced: the process dies
Panic(lc, t) == [lc EXCEPT !.panicked = TRUE, !.threads[t].pc = "panic"]
BeginCall(lc, t, op) ==
    [lc EXCEPT !.made = @ + 1,
               !.threads[t] = [IdleThread EXCEPT !.op = op, !.pc = "entry"]]

\* Start that does not look at isStarted
StartUnguardedStep(lc, t, fails) ==
    LET th == lc.threads[t]
    IN CASE th.pc = "entry" -> Goto(lc, t, "isStarting")
         [] th.pc = "isStarting" ->
                IF lc.isStarting = 0 THEN Goto([lc EXCEPT !.isStarting = 1], t, "WithCancel")
                ELSE Return(lc, t, "nil")
         [] th.pc = "WithCancel" ->
                Goto([lc EXCEPT !.contexts = @ + 1, !.cancel = lc.contexts + 1,
                                !.threads[t].ctx = lc.contexts + 1], t, "backendStart")
         [] th.pc = "backendStart" ->
                IF fails
                THEN Goto([lc EXCEPT !.calls.backendStart = @ + 1, !.threads[t].err = "err"], t, "defer1")
                ELSE Goto([lc EXCEPT !.calls.backendStart = @ + 1], t, "subscribeEvents")
         [] th.pc = "subscribeEvents" ->
                Goto([lc EXCEPT !.calls.subscribeEvents = @ + 1, !.messageEventSub = "open"], t, "Update")
         [] th.pc = "Update" -> Goto([lc EXCEPT !.calls.Update = @ + 1], t, "go")
         [] th.pc = "go" ->
                Goto([lc EXCEPT !.calls.go = @ + 1,
                                !.loops = (th.ctx :> [driver |-> "startRound", unmined |-> "loop"]) @@ @],
                     t, "defer1")
         [] th.pc = "defer1" -> Goto([lc EXCEPT !.isStarting = 0], t, "defer2")
         [] th.pc = "defer2" -> Goto([lc EXCEPT !.isStopped = 0], t, "defer3")
         [] th.pc = "defer3" -> Return([lc EXCEPT !.isStarted = 1], t, th.err)
         [] OTHER -> lc

\* one step of the goroutine t inside Start; fails: backend.Start returns an
\* error.  The deferred function runs on every return after the second test
StartStep(lc, t, fails) ==
    LET th == lc.threads[t]
    IN CASE th.pc = "entry" ->
                IF lc.isStarted = 1 THEN Return(lc, t, "nil") ELSE Goto(lc, t, "isStarting")
         [] th.pc = "isStarting" ->
                IF lc.isStarting = 0 THEN Goto([lc EXCEPT !.isStarting = 1], t, "WithCancel")
                ELSE Return(lc, t, "nil")
         [] th.pc = "WithCancel" ->
                Goto([lc EXCEPT !.contexts = @ + 1, !.cancel = lc.contexts + 1,
                                !.threads[t].ctx = lc.contexts + 1], t, "backendStart")
         [] th.pc = "backendStart" ->
                IF fails
                THEN Goto([lc EXCEPT !.calls.backendStart = @ + 1, !.threads[t].err = "err"], t, "defer1")
                ELSE Goto([lc EXCEPT !.calls.backendStart = @ + 1], t, "subscribeEvents")
         [] th.pc = "subscribeEvents" ->
                Goto([lc EXCEPT !.calls.subscribeEvents = @ + 1, !.messageEventSub = "open"], t, "Update")
         [] th.pc = "Update" -> Goto([lc EXCEPT !.calls.Update = @ + 1], t, "go")
         [] th.pc = "go" ->
                Goto([lc EXCEPT !.calls.go = @ + 1,
                                !.loops = (th.ctx :> [driver |-> "startRound", unmined |-> "loop"]) @@ @],
                     t, "defer1")
         [] th.pc = "defer1" -> Goto([lc EXCEPT !.isStarting = 0], t, "defer2")
         [] th.pc = "defer2" -> Goto([lc EXCEPT !.isStopped = 0], t, "defer3")
         [] th.pc = "defer3" -> Return([lc EXCEPT !.isStarted = 1], t, th.err)
         [] OTHER -> lc

\* <-c.stopped has nothing to receive
StopBlocked(lc, t) == lc.threads[t].pc \in {"stopped1", "stopped2"} /\ lc.stopped = 0

\* Stop that does not look at isStopped
StopUnguardedStep(lc, t, fails) ==
    LET th == lc.threads[t]
    IN CASE th.pc = "entry" -> Goto(lc, t, "isStopping")
         [] th.pc = "isStopping" ->
                IF lc.isStopping = 0 THEN Goto([lc EXCEPT !.isStopping = 1], t, "cancel")
                ELSE Return(lc, t, "nil")
         [] th.pc = "cancel" ->
                IF lc.cancel = NilCancel THEN Panic(lc, t)
                ELSE Goto([lc EXCEPT !.calls.cancel = @ + 1, !.done = @ \cup {lc.cancel},
                                     !.threads[t].ctx = lc.cancel], t, "unsubscribeEvents")
         [] th.pc = "unsubscribeEvents" ->
                IF lc.messageEventSub = "nil" THEN Panic(lc, t)
                ELSE Goto([lc EXCEPT !.calls.unsubscribeEvents = @ + 1, !.messageEventSub = "closed"],
                          t, "stopped1")
         [] th.pc = "stopped1" /\ lc.stopped > 0 ->
                Goto([lc EXCEPT !.stopped = @ - 1, !.calls.receive = @ + 1], t, "stopped2")
         [] th.pc = "stopped2" /\ lc.stopped > 0 ->
                Goto([lc EXCEPT !.stopped = @ - 1, !.calls.receive = @ + 1], t, "backendClose")
         [] th.pc = "backendClose" ->
                Goto([lc EXCEPT !.calls.backendClose = @ + 1,
                                !.threads[t].err = IF fails THEN "err" ELSE "nil"], t, "defer1")
         [] th.pc = "defer1" -> Goto([lc EXCEPT !.isStopping = 0], t, "defer2")
         [] th.pc = "defer2" -> Goto([lc EXCEPT !.isStopped = 1], t, "defer3")
         [] th.pc = "defer3" -> Return([lc EXCEPT !.isStarted = 0], t, th.err)
         [] OTHER -> lc

\* one step of the goroutine t inside Stop; fails: backend.Close returns an
\* error
StopStep(lc, t, fails) ==
    LET th == lc.threads[t]
    IN CASE th.pc = "entry" ->
                IF lc.isStopped = 1 THEN Return(lc, t, "nil") ELSE Goto(lc, t, "isStopping")
         [] th.pc = "isStopping" ->
                IF lc.isStopping = 0 THEN Goto([lc EXCEPT !.isStopping = 1], t, "cancel")
                ELSE Return(lc, t, "nil")
         [] th.pc = "cancel" ->
                IF lc.cancel = NilCancel THEN Panic(lc, t)
                ELSE Goto([lc EXCEPT !.calls.cancel = @ + 1, !.done = @ \cup {lc.cancel},
                                     !.threads[t].ctx = lc.cancel], t, "unsubscribeEvents")
         [] th.pc = "unsubscribeEvents" ->
                IF lc.messageEventSub = "nil" THEN Panic(lc, t)
                ELSE Goto([lc EXCEPT !.calls.unsubscribeEvents = @ + 1, !.messageEventSub = "closed"],
                          t, "stopped1")
         [] th.pc = "stopped1" /\ lc.stopped > 0 ->
                Goto([lc EXCEPT !.stopped = @ - 1, !.calls.receive = @ + 1], t, "stopped2")
         [] th.pc = "stopped2" /\ lc.stopped > 0 ->
                Goto([lc EXCEPT !.stopped = @ - 1, !.calls.receive = @ + 1], t, "backendClose")
         [] th.pc = "backendClose" ->
                Goto([lc EXCEPT !.calls.backendClose = @ + 1,
                                !.threads[t].err = IF fails THEN "err" ELSE "nil"], t, "defer1")
         [] th.pc = "defer1" -> Goto([lc EXCEPT !.isStopping = 0], t, "defer2")
         [] th.pc = "defer2" -> Goto([lc EXCEPT !.isStopped = 1], t, "defer3")
         [] th.pc = "defer3" -> Return([lc EXCEPT !.isStarted = 0], t, th.err)
         [] OTHER -> lc

\* the loop of a goroutine ends: its context is done or its subscription was
\* closed
LoopEnds(lc, k) == CtxDone(lc, k) \/ lc.messageEventSub = "closed"

\* handleConsensusEvents: startRound(0), where a proposer without a candidate
\* block waits until one arrives or ctx.Done(); then the loop, which handles events
\* until ctx.Done() or the end of a subscription; then one send on stopped
handleConsensusEvents(lc, k, waits) ==
    LET pc == lc.loops[k].driver
    IN CASE pc = "startRound" ->
                [lc EXCEPT !.loops[k].driver = IF waits THEN "waitBlock" ELSE "loop"]
         [] pc = "waitBlock" -> [lc EXCEPT !.loops[k].driver = "loop"]
         [] pc = "loop" /\ LoopEnds(lc, k) /\ lc.stopped < StoppedCap ->
                [lc EXCEPT !.loops[k].driver = "exited", !.stopped = @ + 1]
         [] OTHER -> lc

\* handleNewUnminedBlockEvent: the loop stores candidate blocks until
\* ctx.Done() or the end of its subscription; then one send on stopped
handleNewUnminedBlockEvent(lc, k) ==
    IF lc.loops[k].unmined = "loop" /\ LoopEnds(lc, k) /\ lc.stopped < StoppedCap
    THEN [lc EXCEPT !.loops[k].unmined = "exited", !.stopped = @ + 1]
    ELSE lc

----------------------------------------------------------------------------
(* SpecStartStop: the goroutines of the host call Start and Stop on one    *)
(* core, in any order and at the same time; the host may cancel its        *)
(* context                                                                  *)

InitStartStop ==
    /\ nodes = [n \in {"A"} |-> NewLifecycle]
    /\ net = {}
    /\ delivered = 0
    /\ qValSet = NewValidatorSet
    /\ qCount = 0
    /\ qResult = <<>>

CallerBegins(n, t, op) ==
    LET lc == nodes[n]
    IN /\ ~lc.panicked
       /\ lc.threads[t].pc \in {"idle", "returned"}
       /\ lc.made < MaxCalls
       /\ nodes' = [nodes EXCEPT ![n] = BeginCall(lc, t, op)]
       /\ UNCHANGED <<net, delivered, qValSet, qCount, qResult>>

CallerInStart(n, t, fails) ==
    LET lc == nodes[n]
    IN /\ ~lc.panicked
       /\ lc.threads[t].op = "Start"
       /\ lc.threads[t].pc \notin {"idle", "returned", "panic"}
       /\ fails => lc.threads[t].pc = "backendStart"
       /\ nodes' = [nodes EXCEPT ![n] = StartStep(lc, t, fails)]
       /\ UNCHANGED <<net, delivered, qValSet, qCount, qResult>>

CallerInStop(n, t, fails) ==
    LET lc == nodes[n]
    IN /\ ~lc.panicked
       /\ lc.threads[t].op = "Stop"
       /\ lc.threads[t].pc \notin {"idle", "returned", "panic"}
       /\ ~StopBlocked(lc, t)
       /\ fails => lc.threads[t].pc = "backendClose"
       /\ nodes' = [nodes EXCEPT ![n] = StopStep(lc, t, fails)]
       /\ UNCHANGED <<net, delivered, qValSet, qCount, qResult>>

DriverRuns(n, k, waits) ==
    LET lc == nodes[n]
    IN /\ ~lc.panicked
       /\ waits => lc.loops[k].driver = "startRound"
       /\ handleConsensusEvents(lc, k, waits) # lc
       /\ nodes' = [nodes EXCEPT ![n] = handleConsensusEvents(lc, k, waits)]
       /\ UNCHANGED <<net, delivered, qValSet, qCount, qResult>>

UnminedLoopRuns(n, k) ==
    LET lc == nodes[n]
    IN /\ ~lc.panicked
       /\ handleNewUnminedBlockEvent(lc, k) # lc
       /\ nodes' = [nodes EXCEPT ![n] = handleNewUnminedBlockEvent(lc, k)]
       /\ UNCHANGED <<net, delivered, qValSet, qCount, qResult>>

\* the host cancels the context it gave to Start
HostCancels(n) ==
    LET lc == nodes[n]
    IN /\ ~lc.panicked
       /\ ~lc.hostDone
       /\ lc.contexts > 0
       /\ nodes' = [nodes EXCEPT ![n].hostDone = TRUE]
       /\ UNCHANGED <<net, delivered, qValSet, qCount, qResult>>

NextStartStop ==
    \/ \E n \in DOMAIN nodes, t \in Callers, op \in {"Start", "Stop"} : CallerBegins(n, t, op)
    \/ \E n \in DOMAIN nodes, t \in Callers, fails \in BOOLEAN : CallerInStart(n, t, fails)
    \/ \E n \in DOMAIN nodes, t \in Callers, fails \in BOOLEAN : CallerInStop(n, t, fails)
    \/ \E n \in DOMAIN nodes : \E k \in DOMAIN nodes[n].loops, waits \in BOOLEAN : DriverRuns(n, k, waits)
    \/ \E n \in DOMAIN nodes : \E k \in DOMAIN nodes[n].loops : UnminedLoopRuns(n, k)
    \/ \E n \in DOMAIN nodes : HostCancels(n)

SpecStartStop == InitStartStop /\ [][NextStartStop]_vars

----------------------------------------------------------------------------
(* C24 *)

\* what a call leaves behind, the calling goroutine apart
Lifecycle(lc) == [lc EXCEPT !.threads = 0, !.made = 0]
InCall(lc, t, op) == lc.threads[t].op = op /\ lc.threads[t].pc = "entry"

\* C24: in every reachable state, a call of Start that finds the core
\* started (isStarted = 1) returns nil with its first statement, whatever
\* backend.Start would answer: backend.Start is not called, no event is
\* subscribed to, no goroutine is spawned, the round state is not updated, no
\* context is made and no flag changes
C24_StartIdempotent ==
    \A n \in DOMAIN nodes :
        LET lc == nodes[n]
        IN \A t \in Callers :
            (InCall(lc, t, "Start") /\ lc.isStarted = 1) =>
                \A fails \in BOOLEAN :
                    LET lc1 == StartStep(lc, t, fails)
                    IN /\ lc1.threads[t].pc = "returned"
                       /\ lc1.threads[t].ret = "nil"
                       /\ lc1.calls = lc.calls
                       /\ lc1.loops = lc.loops
                       /\ Lifecycle(lc1) = Lifecycle(lc)

\* goroutine 1 has started the core, its call has returned; goroutine 2 has
\* then called Start and has returned nil from the test of isStarted: the
\* start sequence ran once and the core is started
C24_Witness ==
    LET lc == nodes["A"]
    IN /\ lc.threads[1].op = "Start" /\ lc.threads[1].at = "defer3" /\ lc.threads[1].ret = "nil"
       /\ lc.threads[2].op = "Start" /\ lc.threads[2].at = "entry" /\ lc.threads[2].ret = "nil"
       /\ lc.made = 2
       /\ lc.isStarted = 1
       /\ lc.calls.backendStart = 1 /\ lc.calls.subscribeEvents = 1
       /\ lc.calls.Update = 1 /\ lc.calls.go = 1

----------------------------------------------------------------------------
(* C25 *)

\* C25: in every reachable state, a call of Stop that finds the core
\* stopped (isStopped = 1, set by a Stop that has completed) returns nil with
\* its first statement: the context is not cancelled, nothing is
\* unsubscribed, nothing is received from stopped, backend.Close is not
\* called and no flag changes
C25_StopIdempotent ==
    \A n \in DOMAIN nodes :
        LET lc == nodes[n]
        IN \A t \in Callers :
            (InCall(lc, t, "Stop") /\ lc.isStopped = 1) =>
                \A fails \in BOOLEAN :
                    LET lc1 == StopStep(lc, t, fails)
                    IN /\ lc1.threads[t].pc = "returned"
                       /\ lc1.threads[t].ret = "nil"
                       /\ lc1.calls = lc.calls
                       /\ lc1.stopped = lc.stopped
                       /\ lc1.done = lc.done
                       /\ Lifecycle(lc1) = Lifecycle(lc)

\* goroutine 1 has started the core and has then stopped it, its Stop
\* has returned from its last statement; goroutine 2 has then called Stop and
\* has returned nil from the test of isStopped: cancel, unsubscribeEvents and
\* backend.Close were called once, both signals of the loops were received
C25_Witness ==
    LET lc == nodes["A"]
    IN /\ lc.threads[1].op = "Stop" /\ lc.threads[1].at = "defer3" /\ lc.threads[1].ret = "nil"
       /\ lc.threads[2].op = "Stop" /\ lc.threads[2].at = "entry" /\ lc.threads[2].ret = "nil"
       /\ lc.made = 3
       /\ lc.isStopped = 1 /\ lc.isStarted = 0
       /\ lc.calls.go = 1 /\ lc.calls.cancel = 1 /\ lc.calls.unsubscribeEvents = 1
       /\ lc.calls.backendClose = 1 /\ lc.stopped = 0

----------------------------------------------------------------------------
(* SpecStartStopFair: SpecStartStop where every goroutine that can take a  *)
(* step eventually takes one.  A driver that waits for a candidate block   *)
(* is only sure to go on once its context is done                          *)

DriverGoesOn(n, k) ==
    /\ nodes[n].loops[k].driver = "waitBlock" => CtxDone(nodes[n], k)
    /\ DriverRuns(n, k, FALSE)

GoroutineStep ==
    \/ \E n \in DOMAIN nodes, t \in Callers : CallerInStart(n, t, FALSE)
    \/ \E n \in DOMAIN nodes, t \in Callers : CallerInStop(n, t, FALSE)
    \/ \E n \in DOMAIN nodes : \E k \in DOMAIN nodes[n].loops : DriverGoesOn(n, k)
    \/ \E n \in DOMAIN nodes : \E k \in DOMAIN nodes[n].loops : UnminedLoopRuns(n, k)

SpecStartStopFair == InitStartStop /\ [][NextStartStop]_vars /\ WF_vars(GoroutineStep)

----------------------------------------------------------------------------
(* C26 *)

Spawned(lc, k) == k \in DOMAIN lc.loops
Exited(lc, k) == Spawned(lc, k) /\ lc.loops[k].driver = "exited" /\ lc.loops[k].unmined = "exited"
ExitedLoops(lc) ==
    Cardinality({k \in DOMAIN lc.loops : lc.loops[k].driver = "exited"})
        + Cardinality({k \in DOMAIN lc.loops : lc.loops[k].unmined = "exited"})
\* the core is started and the loops of its context were spawned
StartedCore(lc) == lc.isStarted = 1 /\ lc.isStopped = 0 /\ Spawned(lc, lc.cancel)
\* the goroutine is in Stop past the two receives from stopped
PastReceives(th) ==
    th.op = "Stop" /\ (th.pc \in {"backendClose", "defer1", "defer2", "defer3"} \/ th.at = "defer3")

\* a spawned loop that has not exited
LoopsRunning(lc) ==
    \E k \in DOMAIN lc.loops : lc.loops[k].driver # "exited" \/ lc.loops[k].unmined # "exited"

\* every loop that exited has sent one signal on stopped, and a Stop that is
\* past its two receives, backend.Close included, finds no loop running
C26_Signals ==
    \A n \in DOMAIN nodes :
        LET lc == nodes[n]
        IN /\ lc.stopped + lc.calls.receive = ExitedLoops(lc)
           /\ \A t \in Callers : PastReceives(lc.threads[t]) => ~LoopsRunning(lc)

\* C26: every loop that was spawned sends one signal on stopped when it exits
\* and none otherwise, and a Stop that is past its two receives (backend.Close
\* included) leaves no loop running.  Once the context of a pair of loops is
\* done, by Stop or by the host, both loops eventually exit; a Stop called on
\* a started core eventually returns
C26_Termination ==
    /\ [](C26_Signals)
    /\ \A k \in 1..MaxCalls :
            ((Spawned(nodes["A"], k) /\ CtxDone(nodes["A"], k))
                ~> (Exited(nodes["A"], k) \/ nodes["A"].panicked))
    /\ \A t \in Callers :
            ((InCall(nodes["A"], t, "Stop") /\ StartedCore(nodes["A"]))
                ~> (nodes["A"].threads[t].pc = "returned" \/ nodes["A"].panicked))

\* the start sequence ran twice, Stop received the signals of two of the
\* four loops and is at backend.Close while the two drivers are still running
C26_Witness ==
    LET lc == nodes["A"]
    IN \E t \in Callers :
        /\ lc.threads[t].op = "Stop" /\ lc.threads[t].pc = "backendClose"
        /\ lc.calls.go = 2 /\ lc.calls.receive = 2
        /\ \E k \in DOMAIN lc.loops : lc.loops[k].driver \notin {"exited"}

----------------------------------------------------------------------------
(* SpecCancel: core B, the proposer of round 1 of height 1, whose context   *)
(* may be cancelled at any time after Start                                  *)

\* startRound that on ctx.Done() goes on to sendProposal with the nil block
startRoundCancelledProposes(c) == sendProposal([c EXCEPT !.pc = "loop"], NoBlock)

\* case <-ctx.Done(): return, in the select of startRound: the driver leaves
\* startRound and is back in handleConsensusEvents
startRoundCancelled(c) == [c EXCEPT !.pc = "loop"]

\* the host cancels the context given to Start, or Stop calls c.cancel
ContextCancelled(n) ==
    /\ nodes[n].pc # "new"
    /\ ~nodes[n].ctxDone
    /\ nodes' = [nodes EXCEPT ![n].ctxDone = TRUE]
    /\ UNCHANGED <<net, delivered>>

\* the select of the suspended startRound takes ctx.Done()
StartRoundCancelled(n) ==
    /\ nodes[n].pc = "waitBlock"
    /\ nodes[n].ctxDone
    /\ nodes' = [nodes EXCEPT ![n] = startRoundCancelled(nodes[n])]
    /\ UNCHANGED <<net, delivered>>

\* the select of handleConsensusEvents takes ctx.Done(): break eventLoop
DriverExits(n) ==
    /\ nodes[n].pc = "loop"
    /\ nodes[n].ctxDone
    /\ nodes' = [nodes EXCEPT ![n].pc = "stopped"]
    /\ UNCHANGED <<net, delivered>>

NextCancel ==
    \/ Next
    \/ \E n \in DOMAIN nodes : ContextCancelled(n) /\ UNCHANGED <<qValSet, qCount, qResult>>
    \/ \E n \in DOMAIN nodes : StartRoundCancelled(n) /\ UNCHANGED <<qValSet, qCount, qResult>>
    \/ \E n \in DOMAIN nodes : DriverExits(n) /\ UNCHANGED <<qValSet, qCount, qResult>>

SpecCancel == InitPropose /\ [][NextCancel]_vars

----------------------------------------------------------------------------
(* C27 *)

\* the proposals of c's own for its current view that it has broadcast
OwnProposals(c) ==
    {m \in c.out : m.code = msgProposal /\ m.sender = c.address
                    /\ m.height = Height(c) /\ m.round = Round(c)}

\* the step in which startRound, suspended for a candidate block, returns
\* without one
ReturnsWithoutBlock(c, c1) ==
    /\ c.pc = "waitBlock" /\ c1.pc # "waitBlock"
    /\ c1.pendingUnminedBlocks = c.pendingUnminedBlocks

\* C27: when the context is cancelled while the proposer is suspended in
\* startRound for a candidate block, startRound returns having broadcast
\* nothing and posted nothing to its own channel, with no proposal of the
\* view sent, sentProposal false and the propose timeout not armed; and a
\* suspended startRound returns without a block only when the context is done
C27_CancelledStartRound ==
    [][\A n \in DOMAIN nodes :
            ReturnsWithoutBlock(nodes[n], nodes'[n]) =>
                /\ nodes[n].ctxDone
                /\ nodes'[n].out = nodes[n].out
                /\ nodes'[n].events = nodes[n].events
                /\ OwnProposals(nodes'[n]) = {}
                /\ ~nodes'[n].sentProposal
                /\ ~timerStarted(nodes'[n].proposeTimeout)
                /\ nodes'[n].rs = nodes[n].rs]_vars

\* the proposer of the view was suspended in startRound, the context was
\* cancelled and startRound has returned: the driver is back in its loop,
\* still marked as waiting for a block, and has proposed nothing
C27_Witness ==
    LET c == nodes["B"]
    IN /\ c.pc = "loop" /\ c.ctxDone
       /\ c.isWaitingForUnminedBlock /\ c.pendingUnminedBlocks = {}
       /\ isProposer(c) /\ Round(c) = 1 /\ Height(c) = 1
       /\ c.validValue = NoBlock
       /\ OwnProposals(c) = {} /\ ~c.sentProposal
       /\ ~timerStarted(c.proposeTimeout)

----------------------------------------------------------------------------
(* GetCurrentHeightMessages *)

\* roundState.GetMessages: the proposal of the round, if there is one, and
\* the prevotes and precommits of the round
GetMessages(rs) ==
    (IF rs.proposal = NoProposal THEN {}
     ELSE {[code |-> msgProposal, height |-> rs.height, round |-> rs.round,
            proposal |-> rs.proposal]})
    \cup {e.msg : e \in rs.Prevotes.votes} \cup rs.Prevotes.nilvotes
    \cup {e.msg : e \in rs.Precommits.votes} \cup rs.Precommits.nilvotes

\* result = append(result, ms...) for the cells 0..last of msgs
RECURSIVE AppendCells(_, _)
AppendCells(msgs, last) ==
    IF last < 0 THEN EmptyBag
    ELSE BagUnion(AppendCells(msgs, last - 1), [m \in msgs[last] |-> 1])

\* msgs has one cell for each old round state and one more; the cell of an
\* old round state is the one at its key, the round it is stored under, and
\* the last cell is then given the messages of currentRoundState.  A key
\* beyond the last cell is an index out of range
GetCurrentHeightMessages(c) ==
    LET old == c.currentHeightOldRoundsStates
        len == Cardinality(DOMAIN old) + 1
        msgs == [i \in 0..(len - 1) |->
                    IF i = len - 1 THEN GetMessages(Cur(c))
                    ELSE IF i \in DOMAIN old THEN GetMessages(c.rs[old[i]])
                    ELSE {}]
    IN IF \E i \in DOMAIN old : i > len - 1
       THEN [panic |-> TRUE, result |-> EmptyBag]
       ELSE [panic |-> FALSE, result |-> AppendCells(msgs, len - 1)]

----------------------------------------------------------------------------
(* C28 *)

\* the messages stored in the old round states of the height and in the
\* current round state
StoredMessages(c) ==
    UNION {GetMessages(c.rs[c.currentHeightOldRoundsStates[k]]) :
                k \in DOMAIN c.currentHeightOldRoundsStates}
        \cup GetMessages(Cur(c))

\* C28: in every reachable state GetCurrentHeightMessages does not fail and
\* returns each message that is stored in an old round state of the height or
\* in the current round state exactly once, whatever rounds were played or
\* skipped
C28_EveryMessageOnce ==
    \A n \in DOMAIN nodes :
        LET r == GetCurrentHeightMessages(nodes[n])
        IN /\ ~r.panic
           /\ r.result = [m \in StoredMessages(nodes[n]) |-> 1]

\* the core is in round 1 with round 0 in the map of old round states and has
\* a message of round 1: the call returns that message twice
C28_Witness ==
    LET c == nodes["A"]
        r == GetCurrentHeightMessages(c)
    IN /\ Round(c) = 1 /\ DOMAIN c.currentHeightOldRoundsStates = {0}
       /\ ~r.panic
       /\ \E m \in GetMessages(Cur(c)) : m.round = 1 /\ r.result[m] = 2

----------------------------------------------------------------------------
(* SpecSolo: core A is the only validator of its chain and no peer sends it  *)
(* anything.  The backend inserts the blocks that A commits                  *)

\* backend.Commit hands the sealed block to the miner; the chain inserts it
\* and the backend posts the commit event
CommittedBlockInserted(n) ==
    LET c == nodes[n]
    IN /\ c.pc # "new"
       /\ c.chain.number + 1 < MaxSoloHeight
       /\ \E e \in c.committed : e.block.number = c.chain.number + 1
       /\ nodes' = [nodes EXCEPT ![n] =
                [c EXCEPT !.chain = [number |-> c.chain.number + 1, proposer |-> c.address],
                          !.events.commits = 1]]
       /\ UNCHANGED <<net, delivered>>

InitSolo ==
    /\ nodes = [n \in {"A"} |-> [New(n) EXCEPT !.solo = TRUE]]
    /\ net = {}
    /\ delivered = 0
    /\ qValSet = NewValidatorSet
    /\ qCount = 0
    /\ qResult = <<>>

\* what the driver goroutine does: startRound(0), then one event at a time
SoloDriver ==
    \/ \E n \in DOMAIN nodes : DriverStartRound(n) /\ UNCHANGED <<qValSet, qCount, qResult>>
    \/ \E n \in DOMAIN nodes : \E msg \in nodes[n].events.msgs :
            SelfMessage(n, msg) /\ UNCHANGED <<qValSet, qCount, qResult>>
    \/ \E n \in DOMAIN nodes : HandleCommitEvent(n) /\ UNCHANGED <<qValSet, qCount, qResult>>

\* no timer is ever armed in SpecSolo (C29_OwnMessagesOnly): there is no
\* timeout to fire or to handle
NextSolo ==
    \/ \E n \in DOMAIN nodes : Start(n) /\ UNCHANGED <<qValSet, qCount, qResult>>
    \/ \E n \in DOMAIN nodes, id \in {"X", "Y"} :
            NewUnminedBlock(n, id) /\ UNCHANGED <<qValSet, qCount, qResult>>
    \/ \E n \in DOMAIN nodes : CommittedBlockInserted(n) /\ UNCHANGED <<qValSet, qCount, qResult>>
    \/ SoloDriver

\* the driver goroutine is scheduled, and a select with a ready case takes one
SpecSolo == InitSolo /\ [][NextSolo]_vars /\ WF_vars(SoloDriver)

----------------------------------------------------------------------------
(* C29 *)

\* the blocks that the miner has supplied for height h
Candidates(c, h) == {b \in c.pendingUnminedBlocks : b.number = h}
CommittedAt(c, h) == {e \in c.committed : e.height = h}

\* the single validator is the proposer of every round it starts, arms no
\* timer, stays in round 0, and commits a block with its own precommit and
\* its own committed seal, nothing else
SoloSafety ==
    LET c == nodes["A"]
    IN /\ c.pc \in {"loop", "waitBlock"} =>
            /\ c.valSet.validators = <<"A">> /\ isProposer(c)
            /\ Quorum(c, 1) /\ F(c.valSet) = 0
       /\ Round(c) = 0
       /\ ~timerStarted(c.proposeTimeout) /\ ~timerStarted(c.prevoteTimeout)
       /\ ~timerStarted(c.precommitTimeout)
       /\ c.events.timeouts = {}
       /\ delivered = 0
       /\ \A m \in c.out \cup c.events.msgs : m.sender = "A"
       /\ \A e \in c.committed :
            /\ {v.sender : v \in e.votes} = {"A"}
            /\ {x.signer : x \in e.seals} = {"A"}
            /\ e.round = 0 /\ e.block.number = e.height

\* C29: with one validator (n = 1, Q = 1, f = 0) the node is the proposer of
\* every round; no peer message reaches it and no timeout fires, and once the
\* miner has supplied a candidate block for the height it is at, it commits a
\* block of that height with its own precommit alone
C29_OwnMessagesOnly ==
    /\ [](SoloSafety)
    /\ \A h \in 1..MaxSoloHeight :
        ((nodes["A"].pc \in {"loop", "waitBlock"} /\ Height(nodes["A"]) = h
                /\ Candidates(nodes["A"], h) # {})
            ~> (CommittedAt(nodes["A"], h) # {}))

\* the node has committed the blocks of heights 1, 2 and 3, each in round 0
\* with its own precommit, the chain has inserted them and the node is at
\* height 4
C29_Witness ==
    LET c == nodes["A"]
    IN /\ c.chain.number = 3 /\ Height(c) = 4 /\ c.pc \in {"loop", "waitBlock"}
       /\ \A h \in 1..3 : \E e \in CommittedAt(c, h) : {v.sender : v \in e.votes} = {"A"}
       /\ delivered = 0

----------------------------------------------------------------------------
(* SpecMetrics: measureHeightRoundMetrics called with any round.  qResult   *)
(* holds the counts of the two meters, tendermintRoundChangeMeter and       *)
(* tendermintHeightChangeMeter, which are package variables that the core   *)
(* never reads; qCount holds, for each round, the calls made with it        *)

NewMeters == [roundChange |-> 0, heightChange |-> 0]
\* Meter.Mark(n)
Mark(meter, n) == meter + n

\* measureHeightRoundMetrics that counts a height change as a height change only
measureHeightRoundMetricsApart(meters, round) ==
    IF round = 0
    THEN [meters EXCEPT !.heightChange = Mark(@, 1)]
    ELSE [meters EXCEPT !.roundChange = Mark(@, 1)]

measureHeightRoundMetrics(meters, round) ==
    IF round = 0
    THEN [meters EXCEPT !.roundChange = Mark(@, 1), !.heightChange = Mark(@, 1)]
    ELSE [meters EXCEPT !.roundChange = Mark(@, 1)]

RECURSIVE CallsUpTo(_, _)
CallsUpTo(calls, r) == IF r < 0 THEN 0 ELSE calls[r] + CallsUpTo(calls, r - 1)

InitMetrics ==
    /\ nodes = [n \in {"A"} |-> New(n)]
    /\ net = {}
    /\ delivered = 0
    /\ qValSet = NewValidatorSet
    /\ qCount = [r \in 0..MaxRound |-> 0]
    /\ qResult = NewMeters

CallMeasureHeightRoundMetrics(round) ==
    /\ CallsUpTo(qCount, MaxRound) < MaxMarks
    /\ qResult' = measureHeightRoundMetrics(qResult, round)
    /\ qCount' = [qCount EXCEPT ![round] = @ + 1]
    /\ UNCHANGED <<nodes, net, delivered, qValSet>>

NextMetrics == \E round \in 0..MaxRound : CallMeasureHeightRoundMetrics(round)

SpecMetrics == InitMetrics /\ [][NextMetrics]_vars

----------------------------------------------------------------------------
(* C30 *)

\* C30: after any calls of measureHeightRoundMetrics the round-change meter
\* has one mark for every call, whatever its round, and the height-change
\* meter has one mark for every call with round 0 and none for the others
C30_Meters ==
    /\ qResult.roundChange = CallsUpTo(qCount, MaxRound)
    /\ qResult.heightChange = qCount[0]

\* calls were made with round 0 and with later rounds: the height changes
\* are counted among the round changes
C30_Witness ==
    /\ qCount[0] = 2 /\ qCount[1] = 1 /\ qCount[2] = 3
    /\ qResult.roundChange = 6 /\ qResult.heightChange = 2

----------------------------------------------------------------------------
(* C31 *)

\* lexicographic order of the views (height, round)
ViewBefore(c, c1) ==
    \/ Height(c) < Height(c1)
    \/ Height(c) = Height(c1) /\ Round(c) < Round(c1)
ViewSame(c, c1) == Height(c) = Height(c1) /\ Round(c) = Round(c1)

SharedRoundValues(c) ==
    <<c.lockedRound, c.lockedValue, c.validRound, c.validValue, c.valSet.validators>>

\* C32: startRound(R) with R > 0 leaves lockedRound, lockedValue, validRound,
\* validValue and the validators of the set as they were (only the proposer
\* of the set is computed again); a step replaces the validators of the set
\* only by a startRound(0), which takes them from the backend for its height
C32_LaterRoundsKeepShared ==
    /\ [](\A n \in DOMAIN nodes :
            LET c == nodes[n]
            IN c.pc = "loop" =>
                \A r \in 1..MaxRound :
                    SharedRoundValues(startRound(c, r)) = SharedRoundValues(c))
    /\ [][\A n \in DOMAIN nodes :
            LET c == nodes[n]  c1 == nodes'[n]
            IN c1.valSet.validators # c.valSet.validators =>
                    /\ Round(c1) = 0
                    /\ c1.valSet.validators = ValidatorsOfHeight(Height(c1))]_vars

\* A is locked on X in round 0 of height 1 and has moved to round 1 with the
\* lock, the valid value and the validators it had
C32_Witness ==
    LET c == nodes["A"]
    IN /\ c.pc = "loop" /\ Height(c) = 1 /\ Round(c) = 1
       /\ c.lockedRound = 0 /\ c.lockedValue.id = "X"
       /\ c.validRound = 0 /\ c.validValue.id = "X"
       /\ c.valSet.validators = ValidatorsOfHeight(1)


(***************************************************************************)
(* C33: one proposal, one prevote and one precommit in a view              *)
(***************************************************************************)
Views == (1..MaxHeight + 1) \X (0..MaxRound + 1)
Broadcasts(c, code, h, r) ==
    {m \in c.out : m.code = code /\ m.sender = c.address /\ m.height = h /\ m.round = r}

NoStopYet(lc) ==
    /\ ~lc.panicked
    /\ lc.calls.cancel = 0
    /\ \A t \in Callers : lc.threads[t].op # "Stop"

\* C34: while only Start has been called, by any number of goroutines in
\* any interleaving, the start sequence has run at most once: backend.Start
\* was called once, the events were subscribed to once, the goroutines were
\* spawned once and one context was made
C34_StartSequenceOnce ==
    \A n \in DOMAIN nodes :
        LET lc == nodes[n]
        IN NoStopYet(lc) =>
            /\ lc.calls.backendStart <= 1
            /\ lc.calls.subscribeEvents <= 1
            /\ lc.calls.go <= 1
            /\ lc.contexts <= 1

\* two goroutines have called Start, both have returned nil, and the
\* goroutines of the core were spawned twice
C34_Witness ==
    LET lc == nodes["A"]
    IN /\ NoStopYet(lc)
       /\ \A t \in Callers : /\ lc.threads[t].op = "Start" /\ lc.threads[t].pc = "returned"
                              /\ lc.threads[t].ret = "nil"
       /\ lc.calls.go = 2 /\ lc.isStarted = 1


(***************************************************************************)
(* C35: a Start and a Stop at the same time                                *)
(***************************************************************************)
\* two calls were made, a Start by one goroutine and a Stop by another, and
\* both have returned
StartAndStopReturned(lc) ==
    /\ lc.made = 2
    /\ \E t, u \in Callers :
            /\ lc.threads[t].op = "Start" /\ lc.threads[t].pc = "returned"
            /\ lc.threads[u].op = "Stop" /\ lc.threads[u].pc = "returned"

\* C35: once a Start and a Stop that ran at the same time have both
\* returned, exactly one of isStarted and isStopped is 1
C35_ExactlyOneFlag ==
    \A n \in DOMAIN nodes :
        LET lc == nodes[n]
        IN StartAndStopReturned(lc) => lc.isStarted + lc.isStopped = 1

\* a Start and a Stop have returned and both flags are 1: the goroutines
\* have exited, and the next Start and the next Stop return with their
\* first statement
C35_Witness ==
    LET lc == nodes["A"]
    IN /\ StartAndStopReturned(lc)
       /\ lc.isStarted = 1 /\ lc.isStopped = 1
       /\ lc.calls.go = 1 /\ lc.calls.backendClose = 1
       /\ \A t \in Callers :
            /\ Lifecycle(StartStep(BeginCall(lc, t, "Start"), t, FALSE)) = Lifecycle(lc)
            /\ Lifecycle(StopStep(BeginCall(lc, t, "Stop"), t, FALSE)) = Lifecycle(lc)


(***************************************************************************)
(* C36: backend.Start returns an error                                     *)
(***************************************************************************)
\* the only call made so far is a Start, it has returned, and it returned
\* the error of backend.Start
OnlyStartFailed(lc) ==
    /\ lc.made = 1
    /\ \E t \in Callers : /\ lc.threads[t].op = "Start" /\ lc.threads[t].pc = "returned"
                           /\ lc.threads[t].ret = "err"

\* C36: a Start whose backend.Start returned an error has subscribed to no
\* event and spawned no goroutine, and leaves the core not started, so that
\* the next Start calls backend.Start again
C36_FailedStartNotStarted ==
    \A n \in DOMAIN nodes :
        LET lc == nodes[n]
        IN OnlyStartFailed(lc) =>
            /\ lc.calls.backendStart = 1
            /\ lc.calls.subscribeEvents = 0 /\ lc.calls.go = 0
            /\ lc.isStarted = 0
            /\ \A t \in Callers :
                    StartStep(StartStep(BeginCall(lc, t, "Start"), t, FALSE), t, FALSE).isStarting = 1

\* after the Start that failed, a second Start has returned nil without
\* calling backend.Start, and a Stop has cancelled the context and died in
\* unsubscribeEvents: there is no subscription and no goroutine
C36_Witness ==
    LET lc == nodes["A"]
    IN /\ lc.made = 3 /\ lc.panicked
       /\ lc.calls.backendStart = 1 /\ lc.calls.subscribeEvents = 0 /\ lc.calls.go = 0
       /\ lc.calls.cancel = 1 /\ lc.messageEventSub = "nil"
       /\ \E t \in Callers : lc.threads[t].op = "Stop" /\ lc.threads[t].pc = "panic"
       /\ \E t \in Callers : /\ lc.threads[t].op = "Start" /\ lc.threads[t].at = "entry"
                              /\ lc.threads[t].ret = "nil"


(***************************************************************************)
(* C37: what the driver hands to backend.Gossip                            *)
(***************************************************************************)
\* what Gossip was called with, given the core and the error that the
\* handling of the payload returned (the fields c and err of the event)
GossipCalls(res, payload) ==
    IF res.err = errNil THEN {[valSet |-> res.c.valSet, payload |-> payload]} ELSE {}

NewARC(size) == [size |-> size, p |-> 0, t1 |-> <<>>, t2 |-> <<>>, b1 |-> <<>>, b2 |-> <<>>]
Holds(seq, k) == \E i \in 1..Len(seq) : seq[i] = k
Without(seq, k) == SelectSeq(seq, LAMBDA x : x # k)
Min2(a, b) == IF a < b THEN a ELSE b
Max2(a, b) == IF a > b THEN a ELSE b

\* the key has a value in the cache
ArcContains(a, k) == Holds(a.t1, k) \/ Holds(a.t2, k)
ArcKeys(a) == RangeOf(a.t1) \cup RangeOf(a.t2)

ArcGet(a, k) ==
    IF Holds(a.t1, k) THEN [a EXCEPT !.t1 = Without(@, k), !.t2 = Append(a.t2, k)]
    ELSE IF Holds(a.t2, k) THEN [a EXCEPT !.t2 = Append(Without(@, k), k)]
    ELSE a

ArcReplace(a, b2ContainsKey) ==
    IF Len(a.t1) > 0 /\ (Len(a.t1) > a.p \/ (Len(a.t1) = a.p /\ b2ContainsKey))
    THEN [a EXCEPT !.t1 = Tail(@), !.b1 = Append(@, Head(a.t1))]
    ELSE IF Len(a.t2) > 0 THEN [a EXCEPT !.t2 = Tail(@), !.b2 = Append(@, Head(a.t2))]
    ELSE a

ArcFull(a) == Len(a.t1) + Len(a.t2) >= a.size

ArcAdd(a, k) ==
    IF Holds(a.t1, k) THEN [a EXCEPT !.t1 = Without(@, k), !.t2 = Append(a.t2, k)]
    ELSE IF Holds(a.t2, k) THEN [a EXCEPT !.t2 = Append(Without(@, k), k)]
    ELSE IF Holds(a.b1, k)
    THEN LET delta == IF Len(a.b2) > Len(a.b1) THEN Len(a.b2) \div Len(a.b1) ELSE 1
             a1 == [a EXCEPT !.p = Min2(a.size, a.p + delta)]
             a2 == IF ArcFull(a1) THEN ArcReplace(a1, FALSE) ELSE a1
         IN [a2 EXCEPT !.b1 = Without(@, k), !.t2 = Append(@, k)]
    ELSE IF Holds(a.b2, k)
    THEN LET delta == IF Len(a.b1) > Len(a.b2) THEN Len(a.b1) \div Len(a.b2) ELSE 1
             a1 == [a EXCEPT !.p = Max2(0, a.p - delta)]
             a2 == IF ArcFull(a1) THEN ArcReplace(a1, TRUE) ELSE a1
         IN [a2 EXCEPT !.b2 = Without(@, k), !.t2 = Append(@, k)]
    ELSE LET a1 == IF ArcFull(a) THEN ArcReplace(a, FALSE) ELSE a
             a2 == IF Len(a1.b1) > a1.size - a1.p THEN [a1 EXCEPT !.b1 = Tail(@)] ELSE a1
             a3 == IF Len(a2.b2) > a2.p THEN [a2 EXCEPT !.b2 = Tail(@)] ELSE a2
         IN [a3 EXCEPT !.t1 = Append(@, k)]

ArcPurge(a) == [a EXCEPT !.t1 = <<>>, !.t2 = <<>>, !.b1 = <<>>, !.b2 = <<>>]

\* the addresses that the node may be connected to: the validators B, C, D
\* and E, which is a validator of no set handed to Gossip
GossipPeers == {"B", "C", "D", "E"}
GossipValSets == {<<"A", "B", "C", "D">>, <<"A", "B", "C">>, <<"A">>}
GossipPayloads == {"p1", "p2"}
RLPHash(payload) == <<"hash", payload>>

NoGossip == [pc |-> "idle", hash |-> <<>>, payload |-> "none", validators |-> <<>>,
             ps |-> {}, sentTo |-> {}, reset |-> {}]

\* the backend of A: recentMessages maps a peer to the cache of the peer
\* (messages: the value stored with the key), knownMessages is the cache of
\* the node's own messages, connected are the peers the broadcaster finds,
\* sent counts what was handed to p.Send, gossip is the call of Gossip that
\* is running or has returned
NewBackend(connected, broadcaster) ==
    [address |-> "A",
     broadcaster |-> broadcaster,
     connected |-> connected,
     recentMessages |-> NewARC(inmemoryPeers),
     messages |-> [x \in {} |-> NewARC(inmemoryMessages)],
     knownMessages |-> NewARC(inmemoryMessages),
     sent |-> EmptyBag,
     gossip |-> NoGossip,
     gossips |-> 0,
     resets |-> 0]

\* the values of the keys that the cache of the peers holds
Stored(recent, messages) == [x \in DOMAIN messages \cap ArcKeys(recent) |-> messages[x]]

\* the cache of peer x holds the hash
PeerHas(b, x, hash) ==
    /\ ArcContains(b.recentMessages, x)
    /\ ArcContains(b.messages[x], hash)

\* Gossip up to the loop over the peers: the hash of the payload is added to
\* knownMessages, the targets are the validators of the set but the node, ps
\* are the targets that the broadcaster is connected to
GossipBegins(b, valSet, payload) ==
    LET hash == RLPHash(payload)
        targets == RangeOf(valSet) \ {b.address}
        ps == IF b.broadcaster /\ targets # {} THEN b.connected \cap targets ELSE {}
    IN [b EXCEPT !.knownMessages = ArcAdd(@, hash),
                 !.gossips = @ + 1,
                 !.gossip = [pc |-> "loop", hash |-> hash, payload |-> payload,
                             validators |-> valSet, ps |-> ps, sentTo |-> {}, reset |-> {}]]

\* one iteration of the loop of Gossip, for the peer x of ps: a peer whose
\* cache holds the hash is skipped; to any other the hash is added to its
\* cache, a new one if it has none, the cache is stored in recentMessages
\* and the payload is sent
GossipPeer(b, x) ==
    LET ok == ArcContains(b.recentMessages, x)
        r1 == ArcGet(b.recentMessages, x)
        m == IF ok THEN b.messages[x] ELSE NewARC(inmemoryMessages)
        r2 == ArcAdd(r1, x)
    IN IF ok /\ ArcContains(m, b.gossip.hash)
       THEN [b EXCEPT !.recentMessages = r1,
                      !.messages[x] = ArcGet(m, b.gossip.hash),
                      !.gossip.ps = @ \ {x}]
       ELSE [b EXCEPT !.recentMessages = r2,
                      !.messages = Stored(r2, (x :> ArcAdd(m, b.gossip.hash)) @@ b.messages),
                      !.sent = BagAdd(@, <<x, b.gossip.payload>>),
                      !.gossip.ps = @ \ {x},
                      !.gossip.sentTo = @ \cup {x}]

\* ResetPeerCache(address): the cache of the peer, if it has one, is purged
ResetPeerCache(b, address) ==
    LET ok == ArcContains(b.recentMessages, address)
        b1 == [b EXCEPT !.recentMessages = ArcGet(@, address),
                        !.resets = @ + 1,
                        !.gossip.reset = IF b.gossip.pc # "idle" THEN @ \cup {address} ELSE @]
    IN IF ok THEN [b1 EXCEPT !.messages[address] = ArcPurge(@)] ELSE b1

InitGossip ==
    /\ \E connected \in SUBSET GossipPeers, broadcaster \in BOOLEAN :
            nodes = [n \in {"A"} |-> NewBackend(connected, broadcaster)]
    /\ net = {}
    /\ delivered = 0
    /\ qValSet = NewValidatorSet
    /\ qCount = 0
    /\ qResult = <<>>

CallGossip(n, valSet, payload) ==
    /\ nodes[n].gossip.pc \in {"idle", "returned"}
    /\ nodes[n].gossips < MaxGossips
    /\ nodes' = [nodes EXCEPT ![n] = GossipBegins(nodes[n], valSet, payload)]
    /\ UNCHANGED <<net, delivered, qValSet, qCount, qResult>>

\* the loop ranges over a map: the peers come in any order
GossipLoop(n, x) ==
    /\ nodes[n].gossip.pc = "loop"
    /\ x \in nodes[n].gossip.ps
    /\ nodes' = [nodes EXCEPT ![n] = GossipPeer(nodes[n], x)]
    /\ UNCHANGED <<net, delivered, qValSet, qCount, qResult>>

GossipReturns(n) ==
    /\ nodes[n].gossip.pc = "loop"
    /\ nodes[n].gossip.ps = {}
    /\ nodes' = [nodes EXCEPT ![n].gossip.pc = "returned"]
    /\ UNCHANGED <<net, delivered, qValSet, qCount, qResult>>

\* the protocol manager resets the cache of a peer that connects, in its own
\* goroutine
CallResetPeerCache(n, address) ==
    /\ nodes[n].resets < MaxResets
    /\ nodes' = [nodes EXCEPT ![n] = ResetPeerCache(nodes[n], address)]
    /\ UNCHANGED <<net, delivered, qValSet, qCount, qResult>>

NextGossip ==
    \/ \E n \in DOMAIN nodes, valSet \in GossipValSets, payload \in GossipPayloads :
            CallGossip(n, valSet, payload)
    \/ \E n \in DOMAIN nodes, x \in GossipPeers : GossipLoop(n, x)
    \/ \E n \in DOMAIN nodes : GossipReturns(n)
    \/ \E n \in DOMAIN nodes, address \in GossipPeers : CallResetPeerCache(n, address)

SpecGossip == InitGossip /\ [][NextGossip]_vars

\* what a step has handed to p.Send
NewlySent(b, b1) == {s \in DOMAIN b1.sent : b1.sent[s] > MapGet(b.sent, s)}

\* a payload is sent only by an iteration of Gossip, once, to the peer of the
\* iteration, which is connected, a validator of the set and not the node,
\* and whose cache did not hold the hash; an iteration whose peer has the
\* hash in its cache sends nothing; ResetPeerCache(a) empties the cache of a
\* and leaves the cache of every other peer as it is
C38_SendsAndResets ==
    [][\A n \in DOMAIN nodes :
            LET b == nodes[n]  b1 == nodes'[n]
            IN /\ \A s \in NewlySent(b, b1) :
                    /\ b.gossip.pc = "loop" /\ s[2] = b.gossip.payload
                    /\ s[1] \in b.gossip.ps /\ b1.gossip.ps = b.gossip.ps \ {s[1]}
                    /\ s[1] \in b.connected /\ s[1] # b.address
                    /\ s[1] \in RangeOf(b.gossip.validators)
                    /\ b1.sent[s] = MapGet(b.sent, s) + 1
                    /\ NewlySent(b, b1) = {s}
                    /\ ~PeerHas(b, s[1], b.gossip.hash)
                    /\ PeerHas(b1, s[1], b.gossip.hash)
               /\ \A x \in b.gossip.ps \ b1.gossip.ps :
                    PeerHas(b, x, b.gossip.hash) => NewlySent(b, b1) = {}
               /\ b1.resets # b.resets =>
                    \E a \in GossipPeers :
                        /\ \A x \in DOMAIN b.messages \ {a} :
                                x \in DOMAIN b1.messages /\ b1.messages[x] = b.messages[x]
                        /\ DOMAIN b1.messages = DOMAIN b.messages
                        /\ a \in DOMAIN b1.messages => ArcKeys(b1.messages[a]) = {}
                        /\ b1.sent = b.sent]_vars

\* C38: Gossip sends a payload only to connected validators of the set other
\* than the node and to no peer whose cache holds the hash of the payload;
\* when Gossip has returned, every peer it sent to, unless its cache was
\* reset since the call began, has the hash in its cache; ResetPeerCache(a) empties
\* the cache of a only
C38_GossipCaches ==
    /\ C38_SendsAndResets
    /\ [](\A n \in DOMAIN nodes :
            LET b == nodes[n]
            IN b.gossip.pc = "returned" =>
                \A x \in b.gossip.sentTo \ b.gossip.reset : PeerHas(b, x, b.gossip.hash))

\* Gossip has returned after it sent the payload to B, C and D, with no
\* reset, and the cache of one of them is gone
C38_Witness ==
    LET b == nodes["A"]
    IN /\ b.gossip.pc = "returned" /\ b.gossip.sentTo = {"B", "C", "D"}
       /\ b.resets = 0 /\ b.gossips = 1
       /\ \E x \in b.gossip.sentTo : ~PeerHas(b, x, b.gossip.hash)


(***************************************************************************)
(* C39: the counters of the messages of future rounds                      *)
(***************************************************************************)
\* C39: every key of futureRoundsChange is a round greater than the round of
\* the core, and every counter is at least 1 and at most the number of
\* validators of the set
C39_FutureRoundCounters ==
    \A n \in DOMAIN nodes :
        LET c == nodes[n]
        IN c.pc \in {"loop", "waitBlock"} =>
            \A k \in DOMAIN c.futureRoundsChange :
                /\ k > Round(c)
                /\ c.futureRoundsChange[k] >= 1
                /\ c.futureRoundsChange[k] <= Len(c.valSet.validators)

\* A has counted one message of a round after its round
C39_Witness ==
    LET c == nodes["A"]
    IN /\ c.pc = "loop"
       /\ \E k \in DOMAIN c.futureRoundsChange : c.futureRoundsChange[k] = 1 /\ k > Round(c)


(***************************************************************************)
(* C40: ParseV4WithResolveMaxTry                                           *)
(***************************************************************************)
\* A raw URL is given by what its parts are: incomplete (only the hex node
\* id), or complete with a scheme, a user part holding the node id, a host
\* that is an IP address, a domain name or malformed, a port and a discport
GoodUrl ==
    [incomplete |-> FALSE, parses |-> TRUE, scheme |-> "enode", user |-> TRUE, pubkey |-> TRUE,
     host |-> "ip", port |-> "ok", discport |-> "none"]
Urls ==
    {[GoodUrl EXCEPT !.incomplete = TRUE],
     [GoodUrl EXCEPT !.incomplete = TRUE, !.pubkey = FALSE],
     GoodUrl,
     [GoodUrl EXCEPT !.discport = "ok"],
     [GoodUrl EXCEPT !.discport = "bad"],
     [GoodUrl EXCEPT !.host = "domain"],
     [GoodUrl EXCEPT !.host = "domain", !.port = "bad"],
     [GoodUrl EXCEPT !.host = "malformed"],
     [GoodUrl EXCEPT !.parses = FALSE],
     [GoodUrl EXCEPT !.scheme = "http"],
     [GoodUrl EXCEPT !.user = FALSE],
     [GoodUrl EXCEPT !.pubkey = FALSE],
     [GoodUrl EXCEPT !.port = "bad"]}
\* net.LookupIP of a domain name: an error, no address, or addresses
Lookups == {"error", "empty", "addresses"}

NilNode == [id |-> "nil", ip |-> "nil", tcp |-> 0, udp |-> 0]
NewV4(id, ip, tcp, udp) == [id |-> id, ip |-> ip, tcp |-> tcp, udp |-> udp]
Parsed(node, err) == [node |-> node, err |-> err]
TcpPort == 30303
DiscPort == 30301

parseComplete(url, resolve, lookup) ==
    IF ~url.parses THEN Parsed(NilNode, "url.Parse")
    ELSE IF url.scheme # "enode" THEN Parsed(NilNode, "invalid URL scheme")
    ELSE IF ~url.user THEN Parsed(NilNode, "does not contain node ID")
    ELSE IF ~url.pubkey THEN Parsed(NilNode, "invalid public key")
    ELSE IF url.host = "malformed" THEN Parsed(NilNode, "invalid host")
    ELSE IF url.host = "domain" /\ ~resolve THEN Parsed(NilNode, "invalid IP address")
    ELSE IF url.host = "domain" /\ lookup = "error"
    THEN Parsed(NewV4("id", "nil", 0, 0), "invalid domain or IP address")
    ELSE LET ip == IF url.host = "ip" THEN "ip"
                   ELSE IF lookup = "addresses" THEN "resolved" ELSE "nil"
         IN IF url.port # "ok" THEN Parsed(NilNode, "invalid port")
            ELSE IF url.discport = "bad" THEN Parsed(NilNode, "invalid discport in query")
            ELSE Parsed(NewV4("id", ip, TcpPort,
                              IF url.discport = "ok" THEN DiscPort ELSE TcpPort), "nil")

parseV4(url, resolve, lookup) ==
    IF url.incomplete
    THEN IF ~url.pubkey THEN Parsed(NilNode, "invalid public key")
         ELSE Parsed(NewV4("id", "nil", 0, 0), "nil")
    ELSE parseComplete(url, resolve, lookup)

ParseV4WithResolve(url, lookup) == parseV4(url, TRUE, lookup)

\* the call: var node *Node, var err error, the loop counter, and what the
\* loop has done so far
NewParse(url, maxTry) ==
    [pc |-> "loop", rawurl |-> url, maxTry |-> maxTry, i |-> 0,
     node |-> NilNode, err |-> "nil",
     attempts |-> 0, succeeded |-> 0, sleeps |-> 0]

\* one iteration of the loop, i < maxTry: an attempt; without error the loop
\* is left, otherwise the call sleeps and counts
ParseIteration(pa, lookup) ==
    LET r == ParseV4WithResolve(pa.rawurl, lookup)
        pa1 == [pa EXCEPT !.node = r.node, !.err = r.err,
                          !.attempts = @ + 1,
                          !.succeeded = IF r.err = "nil" THEN @ + 1 ELSE @]
    IN IF r.err = "nil" THEN [pa1 EXCEPT !.pc = "returned"]
       ELSE [pa1 EXCEPT !.sleeps = @ + 1, !.i = @ + 1]

InitParse ==
    /\ \E url \in Urls, maxTry \in (0 - 1)..MaxTry :
            nodes = [n \in {"A"} |-> NewParse(url, maxTry)]
    /\ net = {}
    /\ delivered = 0
    /\ qValSet = NewValidatorSet
    /\ qCount = 0
    /\ qResult = <<>>

ParseAttempt(n, lookup) ==
    /\ nodes[n].pc = "loop"
    /\ nodes[n].i < nodes[n].maxTry
    /\ nodes' = [nodes EXCEPT ![n] = ParseIteration(nodes[n], lookup)]
    /\ UNCHANGED <<net, delivered, qValSet, qCount, qResult>>

\* i < maxTry is false: return node, err
ParseReturns(n) ==
    /\ nodes[n].pc = "loop"
    /\ nodes[n].i >= nodes[n].maxTry
    /\ nodes' = [nodes EXCEPT ![n].pc = "returned"]
    /\ UNCHANGED <<net, delivered, qValSet, qCount, qResult>>

NextParse ==
    \/ \E n \in DOMAIN nodes, lookup \in Lookups : ParseAttempt(n, lookup)
    \/ \E n \in DOMAIN nodes : ParseReturns(n)

SpecParse == InitParse /\ [][NextParse]_vars

\* the attempts: at most maxTry (none for maxTry <= 0), none after one that
\* succeeded, a sleep after every one that failed
C40_Attempts ==
    \A n \in DOMAIN nodes :
        LET pa == nodes[n]
        IN /\ pa.attempts <= Max2(pa.maxTry, 0)
           /\ pa.succeeded <= 1
           /\ pa.succeeded = 1 => pa.pc = "returned" /\ pa.err = "nil"
           /\ pa.sleeps = pa.attempts - pa.succeeded

\* C40: ParseV4WithResolveMaxTry makes at most maxTry attempts and none after
\* the first that succeeded, and when it has returned its error is nil only
\* if an attempt succeeded, and then the node is that of the attempt
C40_NilErrorOnlyOnSuccess ==
    \A n \in DOMAIN nodes :
        LET pa == nodes[n]
        IN /\ C40_Attempts
           /\ pa.pc = "returned" /\ pa.err = "nil" =>
                /\ pa.succeeded = 1
                /\ pa.node # NilNode

\* called with maxTry = 0 the call has returned without an attempt, with no
\* node and no error
C40_Witness ==
    LET pa == nodes["A"]
    IN /\ pa.pc = "returned" /\ pa.maxTry = 0 /\ pa.attempts = 0
       /\ pa.node = NilNode /\ pa.err = "nil"

====
